---- MODULE Spec2Model ----
(***************************************************************************)
(* VOCAB RUSH: the timed quiz session of the VocabChallenge component.     *)
(*                                                                         *)
(* The component is a React function component.  Its state lives in        *)
(* useState cells; every callback (a click handler, the countdown          *)
(* interval, the reveal timeout) is a closure over the values of the       *)
(* render in which it was created.  The model keeps the committed state in *)
(* the variables below and keeps, for every pending timer, the values its  *)
(* closure captured.  One action is one callback run to completion         *)
(* followed by the commit of the state updates it queued and by the        *)
(* effects of that commit (JavaScript runs callbacks one at a time and     *)
(* React batches the updates of one callback into one render).             *)
(*                                                                         *)
(* Not modelled: audio, text to speech, styling, the AdSense banners, the  *)
(* hint / example / badge toggles and the category selector; none of them  *)
(* is read by the session logic.                                           *)
(***************************************************************************)
EXTENDS Integers, Sequences, FiniteSets

(***************************************************************************)
(* Bounds of the model.                                                    *)
(***************************************************************************)
\* longest round explored (the code offers 10..25 questions, cut to the pool)
MaxQuestions == 3
\* the user clicks with timeLeft in floor(0.6*time) .. floor(0.6*time)+ClickSpread,
\* or in the last second
ClickSpread == 2
\* questions presented in one session of the component, over all its rounds
MaxSessionQuestions == MaxQuestions

(***************************************************************************)
(* Program constants.                                                      *)
(***************************************************************************)
DIFFICULTY ==
  [easy   |-> [time |-> 15, points |-> 10],
   medium |-> [time |-> 10, points |-> 20],
   hard   |-> [time |-> 6,  points |-> 35]]

DifficultyKeys == {"easy", "medium", "hard"}

interstitialEvery == 3

\* { id, check: s => s[field] >= min }, in catalogue order
ACHIEVEMENTS ==
  << [id |-> "c100",   field |-> "totalCorrect",   min |-> 100],
     [id |-> "c300",   field |-> "totalCorrect",   min |-> 300],
     [id |-> "c500",   field |-> "totalCorrect",   min |-> 500],
     [id |-> "c1000",  field |-> "totalCorrect",   min |-> 1000],
     [id |-> "c2000",  field |-> "totalCorrect",   min |-> 2000],
     [id |-> "c5000",  field |-> "totalCorrect",   min |-> 5000],
     [id |-> "c10000", field |-> "totalCorrect",   min |-> 10000],
     [id |-> "s5",     field |-> "bestStreakEver", min |-> 5],
     [id |-> "s10",    field |-> "bestStreakEver", min |-> 10],
     [id |-> "s15",    field |-> "bestStreakEver", min |-> 15],
     [id |-> "s20",    field |-> "bestStreakEver", min |-> 20],
     [id |-> "s25",    field |-> "bestStreakEver", min |-> 25],
     [id |-> "g10",    field |-> "totalGames",     min |-> 10],
     [id |-> "g50",    field |-> "totalGames",     min |-> 50],
     [id |-> "g100",   field |-> "totalGames",     min |-> 100],
     [id |-> "g500",   field |-> "totalGames",     min |-> 500],
     [id |-> "p1",     field |-> "perfectRounds",  min |-> 1],
     [id |-> "p10",    field |-> "perfectRounds",  min |-> 10],
     [id |-> "p50",    field |-> "perfectRounds",  min |-> 50],
     [id |-> "sc5k",   field |-> "totalScore",     min |-> 5000],
     [id |-> "sc20k",  field |-> "totalScore",     min |-> 20000],
     [id |-> "sc100k", field |-> "totalScore",     min |-> 100000] >>

DEFAULT_STATS ==
  [totalCorrect |-> 0, totalGames |-> 0, bestStreakEver |-> 0,
   totalScore |-> 0, perfectRounds |-> 0, unlockedIds |-> <<>>]

CounterFields ==
  {"totalCorrect", "totalGames", "bestStreakEver", "totalScore", "perfectRounds"}

\* null, and the marker object { en: "__timeout__" }
Null == "null"
TimeoutMark == "__timeout__"

\* the words of VOCAB_DATA that the explored rounds draw from
Pool == <<"w1", "w2", "w3", "w4", "w5", "w6", "w7", "w8">>

\* a record of an earlier session, close to several thresholds
NearThreshold ==
  [totalCorrect |-> 99, totalGames |-> 9, bestStreakEver |-> 5,
   totalScore |-> 4990, perfectRounds |-> 0, unlockedIds |-> <<"s5">>]

\* what localStorage holds under "vocab_rush_stats" when the component mounts
Missing == [kind |-> "missing"]
Json(s) == [kind |-> "json", value |-> s]
InitialPayloads == {Missing, Json(NearThreshold)}

\* a storage that is full or disabled: getItem gives nothing, setItem throws
Refusing == [kind |-> "refusing"]

\* no call of the math generators is running (mathData.js is a module of
\* pure functions; the component modelled above never calls it)
NoFrame ==
  [pc |-> "idle", fn |-> "none", correct |-> 0, count |-> 0, wrongs |-> <<>>,
   attempts |-> 0, fallback |-> 0]

NoQuestion == [question |-> "none", kind |-> "none", answer |-> 0, choices |-> <<>>]

NoRaw == [question |-> "none", kind |-> "none", answer |-> 0, wrongs |-> <<>>]

NoBatch ==
  [pc |-> "idle", category |-> "none", count |-> 0, i |-> 0, raw |-> NoRaw,
   last |-> NoQuestion, questions |-> <<>>]

\* the round is built from the words of the explored rounds
NoMenu == [data |-> <<>>, category |-> "none", roundSize |-> 0]

\* the storage text is not looked at
NoStore == [pc |-> "idle", present |-> FALSE, raw |-> <<>>, stats |-> <<>>]

VARIABLES
  screen, difficulty, questions, current, score, streak, bestStreak,
  timeLeft, selected, results, comboFlash, gameCount, showInterstitial,
  stats, newAchievements,
  timer,          \* <<>> or <<env>>: the countdown interval and its closure
  revealTimers,   \* pending 1800 ms timeouts of handleAnswer, oldest first
  comboTimers,    \* number of pending 800 ms timeouts of the combo flash
  storage,        \* localStorage["vocab_rush_stats"]
  mounted,        \* FALSE once the component has been torn down
  gw,             \* the running call of generateWrongAnswers / generateFractionWrongs
  gq,             \* the running call of generateMathQuestions
  ls,             \* the text under "vocab_rush_stats" and the last loadStats / saveStats
  menu,           \* the word list, category and roundSize that startGame reads
  asked           \* questions presented so far in this session (bounds the model)

vars ==
  <<screen, difficulty, questions, current, score, streak, bestStreak,
    timeLeft, selected, results, comboFlash, gameCount, showInterstitial,
    stats, newAchievements, timer, revealTimers, comboTimers, storage, mounted,
    gw, gq, ls, menu,
    asked>>

Max(a, b) == IF a >= b THEN a ELSE b

NoTimer == <<>>

(***************************************************************************)
(* loadStats / saveStats.                                                  *)
(***************************************************************************)
loadStats(payload) ==
  IF payload.kind = "json" THEN payload.value ELSE DEFAULT_STATS

saveStats(s) == Json(s)

(***************************************************************************)
(* The values a render's closures capture.                                 *)
(***************************************************************************)
Env(sel, qs, cur, tl, st, best, sc, res, gc, diff) ==
  [selected |-> sel, questions |-> qs, current |-> cur, timeLeft |-> tl,
   streak |-> st, bestStreak |-> best, score |-> sc, results |-> res,
   gameCount |-> gc, difficulty |-> diff]

\* the closures of the render that is on screen
CurEnv ==
  Env(selected, questions, current, timeLeft, streak, bestStreak, score,
      results, gameCount, difficulty)

\* the closures of the render that the step commits
NewEnv ==
  Env(selected', questions', current', timeLeft', streak', bestStreak', score',
      results', gameCount', difficulty')

(***************************************************************************)
(* The countdown effect, deps [screen, current, selected]: when a dep       *)
(* changed, the previous run's cleanup clears the interval and the effect  *)
(* starts a new one only on the play screen with no answer selected.       *)
(***************************************************************************)
\* mutant: the effect does not look at selected
M_CountdownRuns_AnyPlay(scr, sel) == scr = "play"

CountdownRuns(scr, sel) == scr = "play" /\ sel = Null

CountdownEffect(afterHandler) ==
  IF <<screen', current', selected'>> = <<screen, current, selected>>
    THEN afterHandler
    ELSE IF CountdownRuns(screen', selected') THEN <<NewEnv>> ELSE NoTimer

(***************************************************************************)
(* startGame                                                               *)
(***************************************************************************)
\* the three other words generateChoices draws for the word at Pool[i]
Others(i) == {Pool[((i + k - 1) % Len(Pool)) + 1] : k \in 1..3}

Question(i) == [word |-> Pool[i], choices |-> {Pool[i]} \cup Others(i)]

\* shuffle(pool).slice(0, roundSize) for a round of n questions
BuildRound(n) == [i \in 1..n |-> Question(i)]

TypeOK ==
  /\ screen \in {"menu", "play", "result"}
  /\ difficulty \in DifficultyKeys
  /\ current \in 0..MaxQuestions
  /\ timeLeft \in 0..15
  /\ comboFlash \in BOOLEAN
  /\ showInterstitial \in BOOLEAN
  /\ comboTimers \in 0..MaxSessionQuestions
  /\ asked \in 0..MaxSessionQuestions
  /\ mounted \in BOOLEAN

\* the state after the first render, with one of payloads in localStorage
Mounted(payloads) ==
  /\ screen = "menu"
  /\ difficulty = "medium"
  /\ questions = <<>>
  /\ current = 0
  /\ score = 0
  /\ streak = 0
  /\ bestStreak = 0
  /\ timeLeft = 10
  /\ selected = Null
  /\ results = <<>>
  /\ comboFlash = FALSE
  /\ gameCount = 0
  /\ showInterstitial = FALSE
  /\ storage \in payloads
  /\ stats = loadStats(storage)
  /\ newAchievements = <<>>
  /\ timer = NoTimer
  /\ revealTimers = <<>>
  /\ comboTimers = 0
  /\ mounted = TRUE
  /\ asked = 0

InitGame == Mounted(InitialPayloads)

Init ==
  /\ InitGame
  /\ gw = NoFrame
  /\ gq = NoBatch
  /\ ls = NoStore
  /\ menu = NoMenu

\* mutant: the streak of the previous round is carried over
M_StartGame_KeepsStreak ==
  /\ mounted /\ UNCHANGED <<mounted, gw, gq, ls, menu>>
  /\ screen \in {"menu", "result"}
  /\ \E n \in 1..MaxQuestions :
       /\ asked + n <= MaxSessionQuestions
       /\ asked' = asked + n
       /\ questions' = BuildRound(n)
  /\ current' = 0
  /\ score' = 0
  /\ streak' = streak
  /\ bestStreak' = 0
  /\ selected' = Null
  /\ results' = <<>>
  /\ timeLeft' = DIFFICULTY[difficulty].time
  /\ screen' = "play"
  /\ UNCHANGED <<difficulty, comboFlash, gameCount, showInterstitial, stats,
                 newAchievements, revealTimers, comboTimers, storage>>
  /\ timer' = CountdownEffect(timer)

StartGame ==
  /\ mounted /\ UNCHANGED <<mounted, gw, gq, ls, menu>>
  /\ screen \in {"menu", "result"}
  /\ \E n \in 1..MaxQuestions :
       /\ asked + n <= MaxSessionQuestions
       /\ asked' = asked + n
       /\ questions' = BuildRound(n)
  /\ current' = 0
  /\ score' = 0
  /\ streak' = 0
  /\ bestStreak' = 0
  /\ selected' = Null
  /\ results' = <<>>
  /\ timeLeft' = DIFFICULTY[difficulty].time
  /\ screen' = "play"
  /\ UNCHANGED <<difficulty, comboFlash, gameCount, showInterstitial, stats,
                 newAchievements, revealTimers, comboTimers, storage>>
  /\ timer' = CountdownEffect(timer)

(***************************************************************************)
(* handleAnswer: the scoring of one answer.  timeLeft is a whole number of *)
(* seconds, so Math.floor(timeLeft * 2) is 2 * timeLeft; time * 0.6 is     *)
(* 9, 6 and 3.5999999999999996 in double arithmetic for the three tiers,   *)
(* which orders against whole seconds exactly as 6 * time / 10 does.       *)
(***************************************************************************)
\* mutant: the guard on selected is missing
M_NeverAnswered(env) == FALSE

AlreadyAnswered(env) == env.selected # Null

\* mutant: the question is always the first of the round
M_FirstQuestion(env) == env.questions[1]

CurrentQuestion(env) == env.questions[env.current + 1]

\* mutant: the missing choice of a timeout counts as the target word
M_IsCorrect_Timeout(choice, q) == choice = Null \/ choice = q.word

IsCorrect(choice, q) == choice # Null /\ choice = q.word

\* mutant: the speed bonus is also given at exactly 0.6 * time
M_AtOrAboveCutoff(tl, diff) == 10 * tl >= 6 * DIFFICULTY[diff].time

AboveSpeedCutoff(tl, diff) == 10 * tl > 6 * DIFFICULTY[diff].time

SpeedBonus(correct, tl, diff) ==
  IF correct /\ AboveSpeedCutoff(tl, diff) THEN 2 * tl ELSE 0

\* mutant: a miss leaves the streak as it is
M_NewStreak_NoReset(correct, st) == IF correct THEN st + 1 ELSE st

NewStreak(correct, st) == IF correct THEN st + 1 ELSE 0

\* mutant: the combo starts at the second answer of a streak
M_IsCombo_AtTwo(correct, newStreak) == correct /\ newStreak >= 2

IsCombo(correct, newStreak) == correct /\ newStreak >= 3

StreakBonus(correct, newStreak) ==
  IF IsCombo(correct, newStreak) THEN newStreak * 5 ELSE 0

\* mutant: the base points are given whatever the answer
M_Pts_Always(correct, diff, speedBonus, streakBonus) ==
  DIFFICULTY[diff].points + speedBonus + streakBonus

Pts(correct, diff, speedBonus, streakBonus) ==
  IF correct THEN DIFFICULTY[diff].points + speedBonus + streakBonus ELSE 0

\* mutant: the best streak is overwritten by the latest streak
M_NewBest_Latest(b, newStreak) == newStreak

NewBest(b, newStreak) == Max(b, newStreak)

\* choice || { en: "__timeout__" }
SelectedFor(choice) == IF choice # Null THEN choice ELSE TimeoutMark

\* the locals of one handleAnswer call
Answer(env, choice) ==
  LET q == CurrentQuestion(env)
      correct == IsCorrect(choice, q)
      speedBonus == SpeedBonus(correct, env.timeLeft, env.difficulty)
      newStreak == NewStreak(correct, env.streak)
      streakBonus == StreakBonus(correct, newStreak)
  IN  [env |-> env, word |-> q.word, choice |-> choice, correct |-> correct,
       newStreak |-> newStreak,
       pts |-> Pts(correct, env.difficulty, speedBonus, streakBonus)]

\* mutant: the entry records the base points, without the bonuses
M_ResultOf_BasePoints(a) ==
  [word |-> a.word, chosen |-> a.choice, correct |-> a.correct,
   points |-> IF a.correct THEN DIFFICULTY[a.env.difficulty].points ELSE 0,
   timeUsed |-> DIFFICULTY[a.env.difficulty].time - a.env.timeLeft]

\* the entry appended to results
ResultOf(a) ==
  [word |-> a.word, chosen |-> a.choice, correct |-> a.correct,
   points |-> a.pts,
   timeUsed |-> DIFFICULTY[a.env.difficulty].time - a.env.timeLeft]

\* the state updates of handleAnswer, and the timers it starts
HandleAnswer(env, choice) ==
  IF AlreadyAnswered(env)
    THEN UNCHANGED <<selected, score, streak, bestStreak, results, comboFlash,
                     comboTimers, revealTimers>>
    ELSE LET a == Answer(env, choice) IN
      /\ comboFlash' = (IsCombo(a.correct, a.newStreak) \/ comboFlash)
      /\ comboTimers' =
           IF IsCombo(a.correct, a.newStreak) THEN comboTimers + 1 ELSE comboTimers
      /\ selected' = SelectedFor(choice)
      /\ score' = score + a.pts
      /\ streak' = a.newStreak
      /\ bestStreak' = NewBest(bestStreak, a.newStreak)
      /\ results' = Append(results, ResultOf(a))
      /\ revealTimers' = Append(revealTimers, a)

\* clearInterval(timerRef.current), after the guard
TimerAfterAnswer(env) == IF AlreadyAnswered(env) THEN timer ELSE NoTimer

(***************************************************************************)
(* A click on a choice button: handleAnswer of the render on screen.       *)
(***************************************************************************)
CutoffSecond(diff) == (6 * DIFFICULTY[diff].time) \div 10

ClickTimes(diff) ==
  {1} \cup {t \in 1..DIFFICULTY[diff].time :
              t - CutoffSecond(diff) \in 0..ClickSpread}

\* the target word and one of the other choices
ClickChoices(q) == {q.word, CHOOSE w \in q.choices : w # q.word}

Click ==
  /\ mounted /\ UNCHANGED <<mounted, gw, gq, ls, menu>>
  /\ screen = "play"
  /\ selected = Null => timeLeft \in ClickTimes(difficulty)
  /\ \E ch \in ClickChoices(CurrentQuestion(CurEnv)) : HandleAnswer(CurEnv, ch)
  /\ UNCHANGED <<screen, difficulty, questions, current, timeLeft, gameCount,
                 showInterstitial, stats, newAchievements, storage, asked>>
  /\ timer' = CountdownEffect(TimerAfterAnswer(CurEnv))

(***************************************************************************)
(* One run of the setInterval callback; handleAnswer is the one of the     *)
(* render in which the interval was started.                               *)
(***************************************************************************)
\* mutant: the timeout is taken one tick late
M_TimedOut_AtZero(t) == t <= 0

\* mutant: the timeout is taken below zero
M_TimedOut_BelowZero(t) == t < 0

TimedOut(t) == t <= 1

\* mutant: the countdown loses two seconds per tick
M_NextTime_Skip(t) == t - 2

\* mutant: the countdown does not count
M_NextTime_Stuck(t) == t

\* return t - 1
NextTime(t) == t - 1

Tick ==
  /\ mounted /\ UNCHANGED <<mounted, gw, gq, ls, menu>>
  /\ timer # NoTimer
  /\ IF TimedOut(timeLeft)
       THEN /\ HandleAnswer(timer[1], Null)
            /\ timeLeft' = 0
            /\ UNCHANGED <<screen, difficulty, questions, current, gameCount,
                           showInterstitial, stats, newAchievements, storage,
                           asked>>
            /\ timer' = CountdownEffect(NoTimer)
       ELSE /\ timeLeft' = NextTime(timeLeft)
            /\ UNCHANGED <<screen, difficulty, questions, current, score,
                           streak, bestStreak, selected, results, comboFlash,
                           gameCount, showInterstitial, stats, newAchievements,
                           revealTimers, comboTimers, storage, asked>>
            /\ timer' = CountdownEffect(timer)

(***************************************************************************)
(* The 1800 ms timeout of handleAnswer: `a` holds what its closure captured *)
(***************************************************************************)
\* mutant: the round ends one question early
M_IsLast_Early(env) == env.current + 2 >= Len(env.questions)

\* mutant: every answer completes the round
M_IsLast_Always(env) == TRUE

IsLast(env) == env.current + 1 >= Len(env.questions)

CurrentResults(a) == Append(a.env.results, ResultOf(a))

NumCorrect(rs) == Cardinality({k \in 1..Len(rs) : rs[k].correct})

\* mutant: the points of the last answer are left out of totalScore
M_MergeStats_StaleScore(prev, a) ==
  LET roundCorrect == NumCorrect(CurrentResults(a))
      isPerfect == roundCorrect = Len(a.env.questions)
  IN  [prev EXCEPT
         !.totalCorrect = prev.totalCorrect + roundCorrect,
         !.totalGames = prev.totalGames + 1,
         !.bestStreakEver =
            Max(prev.bestStreakEver, Max(a.env.bestStreak, a.newStreak)),
         !.totalScore = prev.totalScore + a.env.score,
         !.perfectRounds = prev.perfectRounds + (IF isPerfect THEN 1 ELSE 0)]

\* mutant: bestStreakEver is overwritten by the best streak of the round
M_MergeStats_RoundBest(prev, a) ==
  LET roundCorrect == NumCorrect(CurrentResults(a))
      isPerfect == roundCorrect = Len(a.env.questions)
  IN  [prev EXCEPT
         !.totalCorrect = prev.totalCorrect + roundCorrect,
         !.totalGames = prev.totalGames + 1,
         !.bestStreakEver = Max(a.env.bestStreak, a.newStreak),
         !.totalScore = prev.totalScore + a.env.score + a.pts,
         !.perfectRounds = prev.perfectRounds + (IF isPerfect THEN 1 ELSE 0)]

\* mutant: the perfect round is judged without the last answer
M_MergeStats_PerfectStale(prev, a) ==
  LET roundCorrect == NumCorrect(CurrentResults(a))
      isPerfect == NumCorrect(a.env.results) = Len(a.env.results)
  IN  [prev EXCEPT
         !.totalCorrect = prev.totalCorrect + roundCorrect,
         !.totalGames = prev.totalGames + 1,
         !.bestStreakEver =
            Max(prev.bestStreakEver, Max(a.env.bestStreak, a.newStreak)),
         !.totalScore = prev.totalScore + a.env.score + a.pts,
         !.perfectRounds = prev.perfectRounds + (IF isPerfect THEN 1 ELSE 0)]

\* the counters of `updated`
MergeStats(prev, a) ==
  LET roundCorrect == NumCorrect(CurrentResults(a))
      isPerfect == roundCorrect = Len(a.env.questions)
  IN  [prev EXCEPT
         !.totalCorrect = prev.totalCorrect + roundCorrect,
         !.totalGames = prev.totalGames + 1,
         !.bestStreakEver =
            Max(prev.bestStreakEver, Max(a.env.bestStreak, a.newStreak)),
         !.totalScore = prev.totalScore + a.env.score + a.pts,
         !.perfectRounds = prev.perfectRounds + (IF isPerfect THEN 1 ELSE 0)]

Includes(ids, id) == \E k \in 1..Len(ids) : ids[k] = id

check(ach, s) == s[ach.field] >= ach.min

\* mutant: the checks are run on the stats before the merge
M_Newly_OnPrev(prev, updated) ==
  SelectSeq(ACHIEVEMENTS,
            LAMBDA ach : ~Includes(prev.unlockedIds, ach.id) /\ check(ach, prev))

\* mutant: achievements already unlocked are not filtered out
M_Newly_NoFilter(prev, updated) ==
  SelectSeq(ACHIEVEMENTS, LAMBDA ach : check(ach, updated))

Newly(prev, updated) ==
  SelectSeq(ACHIEVEMENTS,
            LAMBDA ach : ~Includes(prev.unlockedIds, ach.id) /\ check(ach, updated))

Ids(achs) == [k \in 1..Len(achs) |-> achs[k].id]

\* mutant: the unlocked list is replaced by the new ids
M_UpdatedStats_Replace(prev, a) ==
  LET updated == MergeStats(prev, a)
      newly == Newly(prev, updated)
  IN  IF Len(newly) > 0
        THEN [updated EXCEPT !.unlockedIds = Ids(newly)]
        ELSE updated

\* the value the setStats updater returns
UpdatedStats(prev, a) ==
  LET updated == MergeStats(prev, a)
      newly == Newly(prev, updated)
  IN  IF Len(newly) > 0
        THEN [updated EXCEPT !.unlockedIds = prev.unlockedIds \o Ids(newly)]
        ELSE updated

\* mutant: the failure of setItem leaves the updater before its return
M_AfterSave_Propagates(prev, updated, threw) == IF threw THEN prev ELSE updated

\* saveStats(updated); return updated: saveStats catches what setItem throws
AfterSave(prev, updated, threw) == updated

\* localStorage.setItem throws on this storage
Throws(payload) == payload = Refusing

\* localStorage after saveStats(s); a setItem that throws stores nothing
setItem(payload, s) == IF Throws(payload) THEN payload ELSE saveStats(s)

RevealTimeout ==
  /\ mounted /\ UNCHANGED <<mounted, gw, gq, ls, menu>>
  /\ revealTimers # <<>>
  /\ comboTimers = 0     \* the 800 ms timeout of the same call fires first
  /\ LET a == Head(revealTimers) IN
       IF IsLast(a.env)
         THEN LET newCount == a.env.gameCount + 1
                  newly == Newly(stats, MergeStats(stats, a))
              IN /\ gameCount' = newCount
                 /\ showInterstitial' =
                      (newCount % interstitialEvery = 0 \/ showInterstitial)
                 /\ stats' = AfterSave(stats, UpdatedStats(stats, a), Throws(storage))
                 /\ newAchievements' =
                      IF Len(newly) > 0 THEN Ids(newly) ELSE newAchievements
                 /\ storage' = setItem(storage, UpdatedStats(stats, a))
                 /\ screen' = "result"
                 /\ UNCHANGED <<current, selected, timeLeft>>
         ELSE /\ current' = current + 1
              /\ selected' = Null
              /\ timeLeft' = DIFFICULTY[a.env.difficulty].time
              /\ UNCHANGED <<gameCount, showInterstitial, stats,
                             newAchievements, storage, screen>>
  /\ revealTimers' = Tail(revealTimers)
  /\ UNCHANGED <<difficulty, questions, score, streak, bestStreak, results,
                 comboFlash, comboTimers, asked>>
  /\ timer' = CountdownEffect(timer)

\* the 800 ms timeout that ends the combo flash
ComboTimeout ==
  /\ comboTimers > 0
  /\ comboFlash' = (IF mounted THEN FALSE ELSE comboFlash)
  /\ UNCHANGED <<mounted, gw, gq, ls, menu>>
  /\ comboTimers' = comboTimers - 1
  /\ UNCHANGED <<screen, difficulty, questions, current, score, streak,
                 bestStreak, timeLeft, selected, results, gameCount,
                 showInterstitial, stats, newAchievements, timer, revealTimers,
                 storage, asked>>

(***************************************************************************)
(* The other buttons.                                                      *)
(***************************************************************************)
GoMenu ==
  /\ mounted /\ UNCHANGED <<mounted, gw, gq, ls, menu>>
  /\ screen = "result"
  /\ newAchievements' = <<>>
  /\ screen' = "menu"
  /\ UNCHANGED <<difficulty, questions, current, score, streak, bestStreak,
                 timeLeft, selected, results, comboFlash, gameCount,
                 showInterstitial, stats, revealTimers, comboTimers, storage,
                 asked>>
  /\ timer' = CountdownEffect(timer)

SetDifficulty ==
  /\ mounted /\ UNCHANGED <<mounted, gw, gq, ls, menu>>
  /\ screen = "menu"
  /\ \E key \in DifficultyKeys : difficulty' = key
  /\ UNCHANGED <<screen, questions, current, score, streak, bestStreak,
                 timeLeft, selected, results, comboFlash, gameCount,
                 showInterstitial, stats, newAchievements, timer, revealTimers,
                 comboTimers, storage, asked>>

\* the close button of the interstitial, or its 5 s timeout
CloseInterstitial ==
  /\ mounted /\ UNCHANGED <<mounted, gw, gq, ls, menu>>
  /\ screen = "result"
  /\ showInterstitial
  /\ showInterstitial' = FALSE
  /\ UNCHANGED <<screen, difficulty, questions, current, score, streak,
                 bestStreak, timeLeft, selected, results, comboFlash, gameCount,
                 stats, newAchievements, timer, revealTimers, comboTimers,
                 storage, asked>>

Next ==
  \/ StartGame
  \/ Click
  \/ Tick
  \/ RevealTimeout
  \/ ComboTimeout
  \/ GoMenu
  \/ SetDifficulty
  \/ CloseInterstitial

Spec == Init /\ [][Next]_vars

\* the sessions on a storage that refuses every write
InitThrows ==
  /\ Mounted({Refusing})
  /\ gw = NoFrame
  /\ gq = NoBatch
  /\ ls = NoStore
  /\ menu = NoMenu

SpecThrows == InitThrows /\ [][Next]_vars

\* The timers of the browser fire: a started interval ticks every second and
\* a scheduled timeout runs.  The user's clicks are under no obligation.
SpecFair ==
  /\ Spec
  /\ WF_vars(Tick)
  /\ WF_vars(RevealTimeout)
  /\ WF_vars(ComboTimeout)

(***************************************************************************)
(* Teardown.  The host may unmount the component while a round is being    *)
(* played.  React runs the cleanup of the countdown effect, which clears   *)
(* the interval; the timeouts started by handleAnswer keep no handle and   *)
(* stay pending.  The state cells keep their last values and updates to    *)
(* them are dropped.  Whether React still evaluates the updater passed to  *)
(* setStats for a component that is gone is left open: when it does, the   *)
(* updater's call of saveStats writes the record.                          *)
(***************************************************************************)
Unmount ==
  /\ mounted
  /\ screen = "play"
  /\ mounted' = FALSE
  /\ UNCHANGED <<gw, gq, ls, menu>>
  /\ timer' = NoTimer
  /\ UNCHANGED <<screen, difficulty, questions, current, score, streak,
                 bestStreak, timeLeft, selected, results, comboFlash, gameCount,
                 showInterstitial, stats, newAchievements, revealTimers,
                 comboTimers, storage, asked>>

\* the 1800 ms timeout of handleAnswer running after the teardown
LateRevealTimeout ==
  /\ ~mounted
  /\ revealTimers # <<>>
  /\ comboTimers = 0
  /\ LET a == Head(revealTimers) IN
       IF IsLast(a.env)
         THEN storage' \in {storage, saveStats(UpdatedStats(stats, a))}
         ELSE storage' = storage
  /\ revealTimers' = Tail(revealTimers)
  /\ UNCHANGED <<screen, difficulty, questions, current, score, streak,
                 bestStreak, timeLeft, selected, results, comboFlash, gameCount,
                 showInterstitial, stats, newAchievements, timer, comboTimers,
                 mounted, gw, gq, ls, menu, asked>>

NextTeardown ==
  \/ Next
  \/ Unmount
  \/ LateRevealTimeout

SpecTeardown == Init /\ [][NextTeardown]_vars

(***************************************************************************)
(* mathData.js: the math question generator.  Its functions are pure up to *)
(* Math.random, whose outcomes are nondeterministic choices here.  A call  *)
(* in progress is a frame: gw for generateWrongAnswers and                 *)
(* generateFractionWrongs, gq for generateMathQuestions.  Labels are       *)
(* strings, built as the code builds them.  Non-integer answers are held   *)
(* in thousandths (0.125 is 125), which is exact for every value the       *)
(* fraction generators below produce.                                      *)
(***************************************************************************)
MaxCorrect == 2    \* generateWrongAnswers is called with |correct| <= MaxCorrect
MaxCount == 2      \* and with count <= MaxCount
MaxBatch == 2      \* generateMathQuestions is called with count 0 or MaxBatch
MaxFill == 16      \* candidates tried by a generator's own fill-up loop

MaxAttempts == 50
ChoiceWrongs == 3

gameVars ==
  <<screen, difficulty, questions, current, score, streak, bestStreak, timeLeft,
    selected, results, comboFlash, gameCount, showInterstitial, stats,
    newAchievements, timer, revealTimers, comboTimers, storage, mounted, asked>>

\* the outcomes of rand(min, max)
rand(min, max) == min..max

Abs(n) == IF n < 0 THEN -n ELSE n

\* Set.prototype.has on a Set held in insertion order
has(set, x) == \E k \in 1..Len(set) : set[k] = x

\* Set.prototype.add
SetAdd(set, x) == IF has(set, x) THEN set ELSE Append(set, x)

\* new Set(array)
RECURSIVE AddAll(_, _)
AddAll(set, arr) ==
  IF arr = <<>> THEN set ELSE AddAll(SetAdd(set, Head(arr)), Tail(arr))

(***************************************************************************)
(* generateWrongAnswers(correct, count)                                    *)
(***************************************************************************)
\* Math.ceil(absVal * 0.3) for an integer absVal
CeilThreeTenths(absVal) == (3 * absVal + 9) \div 10

\* the values `offset` can take in one attempt, over the four strategies
Offsets(correct) ==
  LET absVal == IF Abs(correct) = 0 THEN 1 ELSE Abs(correct)
      span == Max(5, CeilThreeTenths(absVal))
  IN  rand(1, span) \cup {-r : r \in rand(1, span)}
        \cup rand(1, 10) \cup {-r : r \in rand(1, 10)}

\* mutant: a value already collected is accepted again
M_Fresh_NoHas(wrongs, correct, wrong) == wrong # correct

\* wrong !== correct && !wrongs.has(wrong)
Fresh(wrongs, correct, wrong) == wrong # correct /\ ~has(wrongs, wrong)

\* the condition of the attempt loop
LoopRuns(f) == Len(f.wrongs) < f.count /\ f.attempts < MaxAttempts

Call(fn, correct, count) ==
  [pc |-> "loop", fn |-> fn, correct |-> correct, count |-> count,
   wrongs |-> <<>>, attempts |-> 0, fallback |-> 0]

\* return [...wrongs]; the locals are gone
Return(f, wrongs) ==
  [f EXCEPT !.pc = "done", !.wrongs = wrongs, !.attempts = 0, !.fallback = 0]

\* after a pass of the attempt loop: with the set complete both loops are
\* over and the function returns
AfterPass(f) == IF Len(f.wrongs) >= f.count THEN Return(f, f.wrongs) ELSE f

\* one pass of the fallback loop: correct + fallback if it is new, else
\* correct - fallback if it is new, and fallback++ in any case
FallbackPass(f) ==
  LET above == f.correct + f.fallback
      below == f.correct - f.fallback
  IN  [f EXCEPT
         !.fallback = @ + 1,
         !.wrongs = IF Fresh(@, f.correct, above) THEN Append(@, above)
                    ELSE IF Fresh(@, f.correct, below) THEN Append(@, below)
                    ELSE @]

\* one pass of the attempt loop
GwAttempt ==
  /\ gw.pc = "loop" /\ gw.fn = "int"
  /\ LoopRuns(gw)
  /\ \E offset \in Offsets(gw.correct) :
       LET wrong == gw.correct + offset IN
         gw' = AfterPass([gw EXCEPT
                  !.attempts = @ + 1,
                  !.wrongs = IF Fresh(gw.wrongs, gw.correct, wrong)
                               THEN Append(@, wrong) ELSE @])
  /\ UNCHANGED <<gq, ls, menu, gameVars>>

\* the attempt loop is over with the set incomplete (the attempts ran out)
\* or with count = 0: let fallback = 1, and the first test of the fallback
\* loop's condition
GwFallback ==
  /\ gw.pc = "loop" /\ gw.fn = "int"
  /\ ~LoopRuns(gw)
  /\ gw' = AfterPass([gw EXCEPT !.pc = "fallback", !.fallback = 1])
  /\ UNCHANGED <<gq, ls, menu, gameVars>>

\* one pass of the fallback loop, and the return when the set is complete
GwFallbackPass ==
  /\ gw.pc = "fallback" /\ gw.fn = "int"
  /\ gw' = AfterPass(FallbackPass(gw))
  /\ UNCHANGED <<gq, ls, menu, gameVars>>

InitWrongs ==
  /\ InitGame
  /\ storage = Missing
  /\ gq = NoBatch
  /\ ls = NoStore
  /\ menu = NoMenu
  /\ \E correct \in (-MaxCorrect)..MaxCorrect, count \in 0..MaxCount :
       gw = Call("int", correct, count)

NextWrongs ==
  \/ GwAttempt
  \/ GwFallback
  \/ GwFallbackPass

SpecWrongs == InitWrongs /\ [][NextWrongs]_vars

(***************************************************************************)
(* generateFractionWrongs(correct, count), values in thousandths           *)
(***************************************************************************)
\* mutant: the value is rounded to one decimal
M_RoundCents_Tenths(x) == 100 * ((x + 50) \div 100)

\* Math.round(x * 100) / 100
RoundCents(x) == 10 * ((x + 5) \div 10)

\* mutant: the fallback loop tries the same value again
M_FractionFallbackPass_NoStep(f) ==
  LET w == RoundCents(f.correct + f.fallback) IN
    [f EXCEPT !.wrongs = IF Fresh(@, f.correct, w) THEN Append(@, w) ELSE @]

\* one pass of the fallback loop of generateFractionWrongs
FractionFallbackPass(f) ==
  LET w == RoundCents(f.correct + f.fallback) IN
    [f EXCEPT
       !.fallback = @ + 250,
       !.wrongs = IF Fresh(@, f.correct, w) THEN Append(@, w) ELSE @]

GfAttempt ==
  /\ gw.pc = "loop" /\ gw.fn = "frac"
  /\ LoopRuns(gw)
  /\ \E r \in rand(1, 8) :
       LET offset == (r - 4) * 250
           wrong == RoundCents(gw.correct + offset)
       IN  gw' = AfterPass([gw EXCEPT
                    !.attempts = @ + 1,
                    !.wrongs = IF offset # 0 /\ Fresh(gw.wrongs, gw.correct, wrong)
                                 THEN Append(@, wrong) ELSE @])
  /\ UNCHANGED <<gq, ls, menu, gameVars>>

GfFallback ==
  /\ gw.pc = "loop" /\ gw.fn = "frac"
  /\ ~LoopRuns(gw)
  /\ gw' = AfterPass([gw EXCEPT !.pc = "fallback", !.fallback = 250])
  /\ UNCHANGED <<gq, ls, menu, gameVars>>

GfFallbackPass ==
  /\ gw.pc = "fallback" /\ gw.fn = "frac"
  /\ gw' = AfterPass(FractionFallbackPass(gw))
  /\ UNCHANGED <<gq, ls, menu, gameVars>>

(***************************************************************************)
(* Strings and bits                                                        *)
(***************************************************************************)
DigitChars ==
  <<"0", "1", "2", "3", "4", "5", "6", "7", "8", "9", "A", "B", "C", "D", "E", "F">>

\* n.toString(radix) for n >= 0 (.toUpperCase() applied for radix 16)
RECURSIVE ToString(_, _)
ToString(n, radix) ==
  IF n < radix THEN DigitChars[n + 1]
  ELSE ToString(n \div radix, radix) \o DigitChars[(n % radix) + 1]

\* s.padStart(4, '0')
RECURSIVE PadStart4(_)
PadStart4(s) == IF Len(s) >= 4 THEN s ELSE PadStart4("0" \o s)

Bin4(n) == PadStart4(ToString(n, 2))
Hex(n) == ToString(n, 16)

RECURSIVE BitAnd(_, _)
BitAnd(a, b) ==
  IF a = 0 \/ b = 0 THEN 0
  ELSE (a % 2) * (b % 2) + 2 * BitAnd(a \div 2, b \div 2)

BitOr(a, b) == a + b - BitAnd(a, b)
BitXor(a, b) == a + b - 2 * BitAnd(a, b)
\* ~n & 0xF for n in 0..15
Not4(n) == 15 - n
\* x & 0xF for x >= 0
Low4(x) == x % 16

\* String(n) for an integer
StringOfInt(n) == IF n < 0 THEN "-" \o ToString(-n, 10) ELSE ToString(n, 10)

\* the decimals of t thousandths, trailing zeros dropped
Decimals(t) ==
  IF t % 100 = 0 THEN ToString(t \div 100, 10)
  ELSE IF t % 10 = 0
    THEN ToString(t \div 100, 10) \o ToString((t \div 10) % 10, 10)
  ELSE ToString(t \div 100, 10) \o ToString((t \div 10) % 10, 10)
         \o ToString(t % 10, 10)

\* String(x) for x = t / 1000
StringOfThousandths(t) ==
  LET a == Abs(t)
      whole == ToString(a \div 1000, 10)
      body == IF a % 1000 = 0 THEN whole ELSE whole \o "." \o Decimals(a % 1000)
  IN  IF t < 0 THEN "-" \o body ELSE body

\* String(answer); kind stands for the JavaScript type of the value
String(kind, v) ==
  IF kind = "num" THEN StringOfInt(v)
  ELSE IF kind = "frac" THEN StringOfThousandths(v)
  ELSE v

(***************************************************************************)
(* The generators.  Each is the set of objects it can return.  The         *)
(* question text is cut down to the key of the generator; hint is left     *)
(* out.  Of a generator the branches are modelled that carry their own     *)
(* wrongs list, that return a fraction in the listed values, or that       *)
(* return 0 or 1; the other branches return larger integers and take the   *)
(* same path through generateWrongAnswers.                                 *)
(***************************************************************************)
\* { question, answer, hint }
NumRaw(q, answer) == [question |-> q, kind |-> "num", answer |-> answer, wrongs |-> <<>>]

\* { question, answer, hint, isFraction: true }
FracRaw(q, answer) == [question |-> q, kind |-> "frac", answer |-> answer, wrongs |-> <<>>]

\* { question, answer, hint, isBinary: true, wrongs }
BinRaw(q, answer, wrongs) ==
  [question |-> q, kind |-> "bin", answer |-> answer, wrongs |-> wrongs]

RECURSIVE Fill(_, _, _)
Fill(set, answer, cands) ==
  IF Len(set) >= ChoiceWrongs \/ cands = <<>> THEN set
  ELSE Fill(IF Head(cands) # answer THEN SetAdd(set, Head(cands)) ELSE set,
            answer, Tail(cands))

\* mutant: the answer is not filtered out of the generator's list
M_Dedupe_KeepAnswer(wrongs, answer, cands) ==
  LET filled == Fill(AddAll(<<>>, wrongs), answer, cands)
  IN  SubSeq(filled, 1, IF Len(filled) < 3 THEN Len(filled) ELSE 3)

\* new Set(wrongs.filter(w => w !== answer)), filled up from the fallback
\* candidates, then [...wrongSet].slice(0, 3)
Dedupe(wrongs, answer, cands) ==
  LET wrongSet == AddAll(<<>>, SelectSeq(wrongs, LAMBDA w : w # answer))
      filled == Fill(wrongSet, answer, cands)
  IN  SubSeq(filled, 1, IF Len(filled) < 3 THEN Len(filled) ELSE 3)

genBinary ==
  {BinRaw("binary", ToString(n, 2),
          <<ToString(n + 1, 2), ToString(IF n > 2 THEN n - 1 ELSE n + 2, 2),
            ToString(n + r, 2)>>) : n \in rand(5, 63), r \in rand(2, 5)}
  \cup
  {BinRaw("binary", Hex(n),
          Dedupe(<<Hex(n + 1), Hex(IF n > 17 THEN n - 1 ELSE n + 2), Hex(n + r)>>,
                 Hex(n), [k \in 1..MaxFill |-> Hex(n + 3 + k - 1)]))
     : n \in rand(16, 255), r \in rand(2, 10)}
  \cup
  {BinRaw("binary", ToString(n, 8),
          Dedupe(<<ToString(n + 1, 8), ToString(IF n > 9 THEN n - 1 ELSE n + 2, 8),
                   ToString(n + r, 8)>>,
                 ToString(n, 8), [k \in 1..MaxFill |-> ToString(n + 3 + k - 1, 8)]))
     : n \in rand(8, 127), r \in rand(2, 5)}
  \cup
  {LET tens == n \div 10
       ones == n % 10
       w1tens == (tens + 1) % 10
       w2ones == (ones + 1) % 10
       w3tens == IF tens > 0 THEN tens - 1 ELSE tens + 2
       answer == Bin4(tens) \o " " \o Bin4(ones)
   IN  BinRaw("binary", answer,
              Dedupe(<<Bin4(w1tens) \o " " \o Bin4(ones),
                       Bin4(tens) \o " " \o Bin4(w2ones),
                       Bin4(w3tens) \o " " \o Bin4(w2ones)>>,
                     answer,
                     [k \in 1..MaxFill |->
                        Bin4((tens + 2 + k - 1) % 10) \o " " \o Bin4(ones)]))
     : n \in rand(10, 99)}
  \cup
  {LET complement == Not4(n) IN
     BinRaw("binary", Bin4(complement),
            Dedupe(<<Bin4(n), Bin4(Low4(Not4(n) + 1)), Bin4(Low4(Not4(n) + 2))>>,
                   Bin4(complement),
                   [k \in 1..MaxFill |-> Bin4(Low4(complement + 1 + k - 1))]))
     : n \in rand(1, 14)}
  \cup
  {LET onesComp == Not4(n)
       twosComp == Low4(onesComp + 1)
   IN  BinRaw("binary", Bin4(twosComp),
              Dedupe(<<Bin4(onesComp), Bin4(n), Bin4(Low4(twosComp + 1))>>,
                     Bin4(twosComp),
                     [k \in 1..MaxFill |-> Bin4(Low4(twosComp + 2 + k - 1))]))
     : n \in rand(1, 14)}
  \cup
  {LET sum == a + b IN
     BinRaw("binary", Bin4(sum),
            Dedupe(<<Bin4(BitOr(a, b)), Bin4(BitXor(a, b)), Bin4(Low4(sum + 1))>>,
                   Bin4(sum),
                   [k \in 1..MaxFill |-> Bin4(Low4(sum + 2 + k - 1))]))
     : a \in rand(1, 7), b \in rand(1, 7)}
  \cup
  {LET sum == ab[1] + ab[2] IN
     BinRaw("binary", "0x" \o Hex(sum),
            Dedupe(<<"0x" \o Hex(sum + 1),
                     "0x" \o Hex(IF sum > 1 THEN sum - 1 ELSE sum + 2),
                     "0x" \o Hex(sum + r)>>,
                   "0x" \o Hex(sum),
                   [k \in 1..MaxFill |-> "0x" \o Hex(sum + 3 + k - 1)]))
     : ab \in rand(1, 14) \X rand(1, 14), r \in rand(2, 4)}

\* the absorption, complement, identity and idempotence laws of type 12
laws ==
  {BinRaw("logic", "A", <<"B", "A OR B", "A AND B">>),
   BinRaw("logic", "A", <<"B", "A AND B", "A OR B">>),
   BinRaw("logic", "1", <<"0", "A", "NOT A">>),
   BinRaw("logic", "0", <<"1", "A", "NOT A">>),
   BinRaw("logic", "A", <<"0", "1", "NOT A">>),
   BinRaw("logic", "A", <<"1", "0", "NOT A">>),
   BinRaw("logic", "A", <<"0", "1", "2A">>),
   BinRaw("logic", "A", <<"0", "1", "A^2">>)}

genLogic ==
  {NumRaw("logic", BitAnd(a, b)) : a \in rand(0, 1), b \in rand(0, 1)}
  \cup {NumRaw("logic", BitOr(a, b)) : a \in rand(0, 1), b \in rand(0, 1)}
  \cup {NumRaw("logic", BitXor(a, b)) : a \in rand(0, 1), b \in rand(0, 1)}
  \cup {NumRaw("logic", IF a = 1 THEN 0 ELSE 1) : a \in rand(0, 1)}
  \cup
  {LET result == BitAnd(a, b) IN
     BinRaw("logic", Bin4(result),
            Dedupe(<<Bin4(BitOr(a, b)), Bin4(BitXor(a, b)), Bin4(BitAnd(Not4(a), b))>>,
                   Bin4(result),
                   [k \in 1..MaxFill |-> Bin4(Low4(result + 1 + k - 1))]))
     : a \in rand(1, 15), b \in rand(1, 15)}
  \cup
  {LET result == BitOr(a, b) IN
     BinRaw("logic", Bin4(result),
            Dedupe(<<Bin4(BitAnd(a, b)), Bin4(BitXor(a, b)), Bin4(Not4(result))>>,
                   Bin4(result),
                   [k \in 1..MaxFill |-> Bin4(Low4(result + 1 + k - 1))]))
     : a \in rand(1, 15), b \in rand(1, 15)}
  \cup
  {LET answer == IF (IF op = 0 THEN a /\ b ELSE a \/ b) THEN "True" ELSE "False" IN
     BinRaw("logic", answer,
            IF answer = "True" THEN <<"False", "0", "1">> ELSE <<"True", "1", "0">>)
     : a \in BOOLEAN, b \in BOOLEAN, op \in rand(0, 1)}
  \cup
  {BinRaw("logic", "NOT A OR NOT B", <<"NOT A AND NOT B", "A OR B", "A AND NOT B">>),
   BinRaw("logic", "NOT A AND NOT B", <<"NOT A OR NOT B", "A AND B", "NOT A OR B">>)}
  \cup {NumRaw("logic", IF BitAnd(a, b) # 0 THEN 0 ELSE 1) : a \in rand(0, 1), b \in rand(0, 1)}
  \cup {NumRaw("logic", IF BitOr(a, b) # 0 THEN 0 ELSE 1) : a \in rand(0, 1), b \in rand(0, 1)}
  \cup {NumRaw("logic", IF BitXor(a, b) # 0 THEN 0 ELSE 1) : a \in rand(0, 1), b \in rand(0, 1)}
  \cup
  {LET result == BitAnd(val, mask) IN
     BinRaw("logic", Bin4(result),
            Dedupe(<<Bin4(BitOr(val, mask)), Bin4(BitXor(val, mask)), Bin4(Not4(result))>>,
                   Bin4(result),
                   [k \in 1..MaxFill |-> Bin4(Low4(result + 1 + k - 1))]))
     : val \in rand(1, 15), mask \in {12, 6, 3, 10, 5}}
  \cup laws

\* the probabilities of type 7
probs ==
  {BinRaw("cs_math", "1/8", <<"1/4", "1/6", "3/8">>),
   BinRaw("cs_math", "1/2", <<"1/3", "1/6", "2/3">>),
   BinRaw("cs_math", "1/6", <<"1/3", "1/2", "1/5">>),
   BinRaw("cs_math", "1/13", <<"1/4", "1/52", "1/26">>),
   BinRaw("cs_math", "1/4", <<"1/2", "1/3", "3/4">>),
   BinRaw("cs_math", "1/6", <<"1/12", "1/9", "1/3">>)}

\* the entries of type 14 that carry their own wrongs
asciiQuestions ==
  {BinRaw("cs_math", "A", <<"a", "B", "0">>),
   BinRaw("cs_math", "0", <<"A", "1", "a">>),
   BinRaw("cs_math", "a", <<"A", "b", "0">>)}

genCsMath ==
  {BinRaw("cs_math", "O(1)", <<"O(log n)", "O(n)", "O(n^2)">>)}
  \cup probs
  \cup
  {LET a == rab[1] * 16
       b == rab[2] * 16
       diff == a - b
       answer == "0x" \o Hex(diff)
   IN  BinRaw("cs_math", answer,
              Dedupe(<<"0x" \o Hex(diff + 16),
                       "0x" \o Hex(IF Abs(diff - 16) = 0 THEN 1 ELSE Abs(diff - 16)),
                       "0x" \o Hex(diff + r)>>,
                     answer,
                     [k \in 1..MaxFill |-> "0x" \o Hex(diff + k * 4)]))
     : rab \in {p \in rand(1, 15) \X rand(1, 15) : p[2] \in rand(1, p[1])},
       r \in rand(1, 8)}
  \cup
  {LET sum == ab[1] + ab[2] IN
     BinRaw("cs_math", "0x" \o Hex(sum),
            Dedupe(<<"0x" \o Hex(sum + 1),
                     "0x" \o Hex(IF sum > 1 THEN sum - 1 ELSE sum + 2),
                     "0x" \o Hex(sum + r)>>,
                   "0x" \o Hex(sum),
                   [k \in 1..MaxFill |-> "0x" \o Hex(sum + 3 + k - 1)]))
     : ab \in rand(1, 12) \X rand(1, 12), r \in rand(2, 5)}
  \cup
  {LET result == n * multiplier IN
     BinRaw("cs_math", "0b" \o ToString(result, 2),
            Dedupe(<<"0b" \o ToString(result + 1, 2),
                     "0b" \o ToString(IF result > 1 THEN result - 1 ELSE result + 2, 2),
                     "0b" \o ToString(result + r, 2)>>,
                   "0b" \o ToString(result, 2),
                   [k \in 1..MaxFill |-> "0b" \o ToString(result + 3 + k - 1, 2)]))
     : n \in rand(1, 7), multiplier \in {2, 4}, r \in rand(2, 4)}
  \cup asciiQuestions

\* type 0: the fraction-to-decimal pairs, the decimal in thousandths
pairs ==
  {500, 250, 750, 200, 400, 600, 800, 125, 375, 625, 875, 100, 300, 700, 900,
   50, 40, 150, 350}

genFraction == {FracRaw("fraction", ans) : ans \in pairs}

\* types 0 and 2, each with its one prompt (in ASCII) and the answer 0.5
genAiMath ==
  {FracRaw("sigma(0) = ?", 500), FracRaw("softmax([x, x])[0] = ?", 500)}

allGeneratorKeys == {"fraction", "binary", "logic", "cs_math", "ai_math"}

generators(key) ==
  IF key = "fraction" THEN genFraction
  ELSE IF key = "binary" THEN genBinary
  ELSE IF key = "logic" THEN genLogic
  ELSE IF key = "cs_math" THEN genCsMath
  ELSE genAiMath

Categories == allGeneratorKeys \cup {"random"}

(***************************************************************************)
(* generateMathQuestions(category, count)                                  *)
(***************************************************************************)
\* mutant: a[i] = a[j] alone, the second half of the exchange is lost
M_Swap_Overwrite(a, i, j) == [a EXCEPT ![i] = a[j]]

\* [a[i], a[j]] = [a[j], a[i]]
Swap(a, i, j) == [a EXCEPT ![i] = a[j], ![j] = a[i]]

\* the loop of shuffle from index i down to 1, js[i] the j drawn at index i
RECURSIVE ShuffleFrom(_, _, _)
ShuffleFrom(a, i, js) ==
  IF i <= 0 THEN a ELSE ShuffleFrom(Swap(a, i + 1, js[i] + 1), i - 1, js)

\* the arrays shuffle(arr) can return
shuffle(arr) ==
  {ShuffleFrom(arr, Len(arr) - 1, js) :
     js \in {f \in [1..(Len(arr) - 1) -> 0..(Len(arr) - 1)] :
               \A i \in 1..(Len(arr) - 1) : f[i] <= i}}

\* the array handed to shuffle
Labelled(raw, wrongs) ==
  <<[label |-> String(raw.kind, raw.answer), isCorrect |-> TRUE]>>
    \o [k \in 1..Len(wrongs) |->
          [label |-> String(raw.kind, wrongs[k]), isCorrect |-> FALSE]]

\* an iteration up to the choice of the wrong answers: the lists of the
\* isBinary generators are taken as they are (none of them is empty, so
\* generateStringWrongs is never reached), the others are generated
GmGen ==
  /\ gq.pc = "loop"
  /\ gq.i < gq.count
  /\ \E key \in (IF gq.category = "random" THEN allGeneratorKeys ELSE {gq.category}) :
       \E raw \in generators(key) :
         /\ gq' = [gq EXCEPT !.pc = "wrongs", !.raw = raw]
         /\ gw' = IF raw.kind = "bin"
                    THEN Return(Call("list", 0, ChoiceWrongs), raw.wrongs)
                  ELSE IF raw.kind = "frac"
                    THEN Call("frac", raw.answer, ChoiceWrongs)
                  ELSE Call("int", raw.answer, ChoiceWrongs)
  /\ UNCHANGED <<ls, menu, gameVars>>

\* the generators whose raw.question is the prompt itself; for the others
\* it is the generator's key
SpellsPrompts(category) == category = "ai_math"

\* the rest of the iteration: the choices are shuffled and the question is
\* pushed; after the last iteration the function returns.  last is the
\* question just pushed; questions holds the prompts pushed so far where
\* the prompts are spelled out.
GmPush ==
  /\ gq.pc = "wrongs"
  /\ gw.pc = "done"
  /\ \E choices \in shuffle(Labelled(gq.raw, gw.wrongs)) :
       gq' = [gq EXCEPT
                !.pc = IF gq.i + 1 < gq.count THEN "pushed" ELSE "done",
                !.i = IF gq.i + 1 < gq.count THEN @ ELSE @ + 1,
                !.raw = NoRaw,
                !.last = [question |-> gq.raw.question,
                          kind |-> gq.raw.kind,
                          answer |-> gq.raw.answer,
                          choices |-> choices],
                !.questions = IF SpellsPrompts(gq.category)
                                THEN Append(@, gq.raw.question) ELSE @]
  /\ gw' = NoFrame
  /\ UNCHANGED <<ls, menu, gameVars>>

\* i++ into a further iteration.  The questions pushed so far are not read
\* again; the frame keeps their prompts only.
GmNext ==
  /\ gq.pc = "pushed"
  /\ gq' = [gq EXCEPT !.pc = "loop", !.i = @ + 1, !.last = NoQuestion]
  /\ UNCHANGED <<gw, ls, menu, gameVars>>

\* the loop is not entered (count is 0)
GmReturn ==
  /\ gq.pc = "loop"
  /\ gq.i >= gq.count
  /\ gq' = [gq EXCEPT !.pc = "done"]
  /\ UNCHANGED <<gw, ls, menu, gameVars>>

InitMath ==
  /\ InitGame
  /\ storage = Missing
  /\ gw = NoFrame
  /\ ls = NoStore
  /\ menu = NoMenu
  /\ \E category \in Categories, count \in {0, MaxBatch} :
       gq = [NoBatch EXCEPT !.pc = "loop", !.category = category, !.count = count]

NextMath ==
  \/ GmGen
  \/ GwAttempt
  \/ GwFallback
  \/ GwFallbackPass
  \/ GfAttempt
  \/ GfFallback
  \/ GfFallbackPass
  \/ GmPush
  \/ GmNext
  \/ GmReturn

SpecMath == InitMath /\ [][NextMath]_vars

(***************************************************************************)
(* generateStringWrongs.  It indexes its argument, so the string is held   *)
(* as the sequence of its characters.                                      *)
(***************************************************************************)
\* the characters matched by /[0-9]/ and, in upper case, by /[A-F]/i
DecChars == {DigitChars[k] : k \in 1..10}

HexLetters == {DigitChars[k] : k \in 11..16}

toUpperCase(ch) ==
  CASE ch = "a" -> "A" [] ch = "b" -> "B" [] ch = "c" -> "C"
    [] ch = "d" -> "D" [] ch = "e" -> "E" [] ch = "f" -> "F"
    [] OTHER -> ch

parseInt(ch) == CHOOSE d \in 0..9 : DigitChars[d + 1] = ch

\* the values `replacement` can take for the character ch
Replacements(ch) ==
  IF ch \in {"0", "1"} THEN {IF ch = "0" THEN "1" ELSE "0"}
  ELSE IF ch \in DecChars
    THEN {DigitChars[((parseInt(ch) + r) % 10) + 1] : r \in rand(1, 9)}
  ELSE IF toUpperCase(ch) \in HexLetters
    THEN HexLetters \ {toUpperCase(ch)}
  ELSE {DigitChars[r + 1] : r \in rand(0, 9)}

\* String(n) for n >= 0, as characters
RECURSIVE CharsOf(_)
CharsOf(n) ==
  IF n < 10 THEN <<DigitChars[n + 1]>>
  ELSE CharsOf(n \div 10) \o <<DigitChars[(n % 10) + 1]>>

GsAttempt ==
  /\ gw.pc = "loop" /\ gw.fn = "str"
  /\ LoopRuns(gw)
  /\ \E idx \in rand(0, Len(gw.correct) - 1) :
       \E replacement \in Replacements(gw.correct[idx + 1]) :
         LET wrong == [gw.correct EXCEPT ![idx + 1] = replacement] IN
           gw' = AfterPass([gw EXCEPT
                    !.attempts = @ + 1,
                    !.wrongs = IF Fresh(@, gw.correct, wrong)
                                 THEN Append(@, wrong) ELSE @])
  /\ UNCHANGED <<gq, ls, menu, gameVars>>

\* mutant: the counter is put in front of correct
M_StringFallbackPass_Prepend(f) ==
  LET w == CharsOf(f.fallback + 1) \o f.correct IN
    [f EXCEPT
       !.fallback = @ + 1,
       !.wrongs = IF Fresh(@, f.correct, w) THEN Append(@, w) ELSE @]

\* one pass of the fallback loop of generateStringWrongs (fallback++ first)
StringFallbackPass(f) ==
  LET w == f.correct \o CharsOf(f.fallback + 1) IN
    [f EXCEPT
       !.fallback = @ + 1,
       !.wrongs = IF Fresh(@, f.correct, w) THEN Append(@, w) ELSE @]

GsFallback ==
  /\ gw.pc = "loop" /\ gw.fn = "str"
  /\ ~LoopRuns(gw)
  /\ gw' = AfterPass([gw EXCEPT !.pc = "fallback", !.fallback = 0])
  /\ UNCHANGED <<gq, ls, menu, gameVars>>

GsFallbackPass ==
  /\ gw.pc = "fallback" /\ gw.fn = "str"
  /\ gw' = AfterPass(StringFallbackPass(gw))
  /\ UNCHANGED <<gq, ls, menu, gameVars>>

(***************************************************************************)
(* The three generators of wrong answers, each called once and run to its  *)
(* return.  The loops are synchronous code: a call that can take a step    *)
(* takes it.                                                               *)
(***************************************************************************)
\* fractions in thousandths: eighths around 0
FractionInputs == {125 * c : c \in (-MaxCorrect)..MaxCorrect}

\* a binary string, a decimal and hex one, a lower-case hex digit, a sign
StringInputs == {<<"1">>, <<"1", "0">>, <<"7", "C">>, <<"c">>, <<"-">>}

InitTerminate ==
  /\ InitGame
  /\ storage = Missing
  /\ gq = NoBatch
  /\ ls = NoStore
  /\ menu = NoMenu
  /\ \E count \in 0..MaxCount :
       \/ \E correct \in (-MaxCorrect)..MaxCorrect : gw = Call("int", correct, count)
       \/ \E correct \in FractionInputs : gw = Call("frac", correct, count)
       \/ \E correct \in StringInputs : gw = Call("str", correct, count)

NextTerminate ==
  \/ GwAttempt
  \/ GwFallback
  \/ GwFallbackPass
  \/ GfAttempt
  \/ GfFallback
  \/ GfFallbackPass
  \/ GsAttempt
  \/ GsFallback
  \/ GsFallbackPass

SpecTerminate == InitTerminate /\ [][NextTerminate]_vars /\ WF_vars(NextTerminate)

(***************************************************************************)
(* generateStringWrongs alone.                                             *)
(***************************************************************************)
InitString ==
  /\ InitGame
  /\ storage = Missing
  /\ gq = NoBatch
  /\ ls = NoStore
  /\ menu = NoMenu
  /\ \E correct \in StringInputs, count \in 0..MaxCount :
       gw = Call("str", correct, count)

NextString ==
  \/ GsAttempt
  \/ GsFallback
  \/ GsFallbackPass

SpecString == InitString /\ [][NextString]_vars

(***************************************************************************)
(* generateFractionWrongs alone, called with multiples of 0.01.            *)
(***************************************************************************)
\* correct in thousandths: on and off the 0.25 lattice, of both signs
CentInputs == {0, 70, 250, 990, -330, -500}

InitFraction ==
  /\ InitGame
  /\ storage = Missing
  /\ gq = NoBatch
  /\ ls = NoStore
  /\ menu = NoMenu
  /\ \E correct \in CentInputs, count \in 0..MaxCount :
       gw = Call("frac", correct, count)

NextFraction ==
  \/ GfAttempt
  \/ GfFallback
  \/ GfFallbackPass

SpecFraction == InitFraction /\ [][NextFraction]_vars

(***************************************************************************)
(* shuffle(arr), one pass of its loop per step.  The frame holds the       *)
(* caller's array arr, the local array a and the loop index i.             *)
(***************************************************************************)
MaxShuffle == 3    \* shuffle is called with arrays of up to MaxShuffle elements

Elements == {"x", "y", "z"}

ShuffleInputs == UNION {[1..n -> Elements] : n \in 0..MaxShuffle}

\* const a = [...arr]
Copy(arr) == [k \in 1..Len(arr) |-> arr[k]]

\* the frame at the head of the loop: i = a.length - 1
ShuffleCall(arr) ==
  [pc |-> "loop", fn |-> "shuffle", arr |-> arr, a |-> Copy(arr),
   i |-> Len(arr) - 1]

InitShuffle ==
  /\ InitGame
  /\ storage = Missing
  /\ gq = NoBatch
  /\ ls = NoStore
  /\ menu = NoMenu
  /\ \E arr \in ShuffleInputs : gw = ShuffleCall(arr)

\* one pass: j = Math.floor(Math.random() * (i + 1)), the exchange, i--
ShufflePass ==
  /\ gw.fn = "shuffle"
  /\ gw.pc = "loop"
  /\ gw.i > 0
  /\ \E j \in rand(0, gw.i) :
       gw' = [gw EXCEPT !.a = Swap(@, gw.i + 1, j + 1), !.i = @ - 1]
  /\ UNCHANGED <<gq, ls, menu, gameVars>>

\* return a
ShuffleReturn ==
  /\ gw.fn = "shuffle"
  /\ gw.pc = "loop"
  /\ gw.i <= 0
  /\ gw' = [gw EXCEPT !.pc = "done"]
  /\ UNCHANGED <<gq, ls, menu, gameVars>>

NextShuffle ==
  \/ ShufflePass
  \/ ShuffleReturn

SpecShuffle == InitShuffle /\ [][NextShuffle]_vars

(***************************************************************************)
(* loadStats / saveStats on the text of localStorage.                      *)
(*                                                                         *)
(* A JavaScript value is a tagged record; an object is the sequence of its *)
(* own properties in insertion order.  JSON text is the sequence of its    *)
(* tokens, a number literal being the sequence of its characters.          *)
(***************************************************************************)
JsNumber(n) == [t |-> "number", v |-> n]

JsString(str) == [t |-> "string", v |-> str]

JsNull == [t |-> "null", v |-> 0]

JsArray(elems) == [t |-> "array", v |-> elems]

JsObject(props) == [t |-> "object", v |-> props]

Prop(key, value) == [key |-> key, value |-> value]

\* the stats record of the component as the JavaScript object it is
StatsObject(s) ==
  JsObject(<< Prop("totalCorrect", JsNumber(s.totalCorrect)),
              Prop("totalGames", JsNumber(s.totalGames)),
              Prop("bestStreakEver", JsNumber(s.bestStreakEver)),
              Prop("totalScore", JsNumber(s.totalScore)),
              Prop("perfectRounds", JsNumber(s.perfectRounds)),
              Prop("unlockedIds",
                   JsArray([k \in 1..Len(s.unlockedIds) |->
                              JsString(s.unlockedIds[k])])) >>)

Token(k, v) == [k |-> k, v |-> v]

Punct(k) == Token(k, 0)

\* String(n) for an integer n, as characters
NumberChars(n) == IF n < 0 THEN <<"-">> \o CharsOf(-n) ELSE CharsOf(n)

RECURSIVE JSON_stringify(_)
RECURSIVE StringifyElements(_)
RECURSIVE StringifyProps(_)
\* JSON.stringify(value)
JSON_stringify(value) ==
  CASE value.t = "number" -> <<Token("number", NumberChars(value.v))>>
    [] value.t = "string" -> <<Token("string", value.v)>>
    [] value.t = "null"   -> <<Punct("null")>>
    [] value.t = "array"  ->
         <<Punct("[")>> \o StringifyElements(value.v) \o <<Punct("]")>>
    [] value.t = "object" ->
         <<Punct("{")>> \o StringifyProps(value.v) \o <<Punct("}")>>

StringifyElements(elems) ==
  IF Len(elems) = 0 THEN <<>>
  ELSE IF Len(elems) = 1 THEN JSON_stringify(elems[1])
  ELSE JSON_stringify(elems[1]) \o <<Punct(",")>> \o StringifyElements(Tail(elems))

StringifyProps(props) ==
  IF Len(props) = 0 THEN <<>>
  ELSE LET first == <<Token("string", props[1].key), Punct(":")>>
                      \o JSON_stringify(props[1].value)
       IN  IF Len(props) = 1 THEN first
           ELSE first \o <<Punct(",")>> \o StringifyProps(Tail(props))

\* the number a literal denotes
RECURSIVE DigitsValue(_)
DigitsValue(chars) ==
  IF Len(chars) = 0 THEN 0
  ELSE 10 * DigitsValue(SubSeq(chars, 1, Len(chars) - 1))
         + parseInt(chars[Len(chars)])

NumberOf(chars) ==
  IF chars[1] = "-" THEN -DigitsValue(Tail(chars)) ELSE DigitsValue(chars)

\* the result of parsing a prefix of the text: the value and the text left,
\* or the SyntaxError
Parsed(value, rest) == [ok |-> TRUE, value |-> value, rest |-> rest]

SyntaxError == [ok |-> FALSE, value |-> JsNull, rest |-> <<>>]

Starts(text, k) == Len(text) > 0 /\ text[1].k = k

\* obj[key] = value: an own property keeps its place, a new one goes last
Put(props, key, value) ==
  IF \E i \in 1..Len(props) : props[i].key = key
    THEN [i \in 1..Len(props) |->
            IF props[i].key = key THEN Prop(key, value) ELSE props[i]]
    ELSE Append(props, Prop(key, value))

RECURSIVE ParseValue(_)
RECURSIVE ParseElements(_, _)
RECURSIVE ParseMembers(_, _)
ParseValue(text) ==
  IF Len(text) = 0 THEN SyntaxError
  ELSE CASE text[1].k = "number" -> Parsed(JsNumber(NumberOf(text[1].v)), Tail(text))
         [] text[1].k = "string" -> Parsed(JsString(text[1].v), Tail(text))
         [] text[1].k = "null"   -> Parsed(JsNull, Tail(text))
         [] text[1].k = "["      ->
              IF Starts(Tail(text), "]") THEN Parsed(JsArray(<<>>), Tail(Tail(text)))
              ELSE ParseElements(Tail(text), <<>>)
         [] text[1].k = "{"      ->
              IF Starts(Tail(text), "}") THEN Parsed(JsObject(<<>>), Tail(Tail(text)))
              ELSE ParseMembers(Tail(text), <<>>)
         [] OTHER -> SyntaxError

\* the elements of an array after "[" or ",", up to "]"
ParseElements(text, elems) ==
  LET e == ParseValue(text) IN
    IF ~e.ok THEN SyntaxError
    ELSE IF Starts(e.rest, ",")
      THEN ParseElements(Tail(e.rest), Append(elems, e.value))
    ELSE IF Starts(e.rest, "]")
      THEN Parsed(JsArray(Append(elems, e.value)), Tail(e.rest))
    ELSE SyntaxError

\* the members of an object after "{" or ",", up to "}"
ParseMembers(text, props) ==
  IF ~(Starts(text, "string") /\ Starts(Tail(text), ":")) THEN SyntaxError
  ELSE LET m == ParseValue(Tail(Tail(text))) IN
    IF ~m.ok THEN SyntaxError
    ELSE IF Starts(m.rest, ",")
      THEN ParseMembers(Tail(m.rest), Put(props, text[1].v, m.value))
    ELSE IF Starts(m.rest, "}")
      THEN Parsed(JsObject(Put(props, text[1].v, m.value)), Tail(m.rest))
    ELSE SyntaxError

\* JSON.parse(text): the whole text is one value, or it throws
JSON_parse(text) ==
  LET r == ParseValue(text) IN
    IF r.ok /\ Len(r.rest) = 0 THEN r ELSE SyntaxError

\* the own enumerable properties `...value` copies: those of an object, the
\* indexed elements of an array, none of a number or null
OwnProps(value) ==
  CASE value.t = "object" -> value.v
    [] value.t = "array"  ->
         [i \in 1..Len(value.v) |-> Prop(ToString(i - 1, 10), value.v[i])]
    [] value.t \in {"number", "null"} -> <<>>

RECURSIVE PutAll(_, _)
PutAll(props, more) ==
  IF Len(more) = 0 THEN props
  ELSE PutAll(Put(props, more[1].key, more[1].value), Tail(more))

\* mutant: the stored fields do not replace the defaults
M_Spread_DefaultsOnly(defaults, value) == JsObject(OwnProps(defaults))

\* { ...defaults, ...value }
Spread(defaults, value) == JsObject(PutAll(OwnProps(defaults), OwnProps(value)))

\* what localStorage.getItem returns: null, or the text stored
NoItem == [present |-> FALSE, text |-> <<>>]

Item(text) == [present |-> TRUE, text |-> text]

\* loadStats with getItem returning raw; `if (raw)` is false for null and
\* for the empty text
StoredStats(raw) ==
  IF raw.present /\ Len(raw.text) > 0
    THEN LET r == JSON_parse(raw.text) IN
           IF r.ok THEN Spread(StatsObject(DEFAULT_STATS), r.value)
           ELSE StatsObject(DEFAULT_STATS)
    ELSE StatsObject(DEFAULT_STATS)

\* the records the rounds of a player save
IdLists == {<<>>, <<"s5">>, <<"s5", "g10">>, <<"g10", "s5">>}

SavedRecords ==
  [totalCorrect : {0, 10, 4990}, totalGames : {1, 9},
   bestStreakEver : {0, 10}, totalScore : {0, 4990},
   perfectRounds : {0, 9}, unlockedIds : IdLists]

\* texts found under the key that no saveStats wrote: not JSON, JSON that is
\* no object, objects with a field of another type, and a record of an older
\* version with fewer fields
Junk == Token("junk", 0)

ForeignTexts ==
  { <<>>,
    <<Junk>>,
    <<Punct("{")>>,
    <<Punct("{"), Token("string", "totalGames"), Punct(":"), Punct("}")>>,
    JSON_stringify(StatsObject(DEFAULT_STATS)) \o <<Punct("}")>>,
    JSON_stringify(JsNumber(5)),
    JSON_stringify(JsNull),
    JSON_stringify(JsArray(<<JsNumber(1), JsNumber(2)>>)),
    JSON_stringify(JsObject(<<Prop("unlockedIds", JsNumber(5))>>)),
    JSON_stringify(JsObject(<<Prop("totalCorrect", JsString("x"))>>)),
    JSON_stringify(JsObject(<<Prop("totalScore", JsNull)>>)),
    JSON_stringify(JsObject(<<Prop("totalGames", JsNumber(3))>>)) }

InitialItems == {NoItem} \cup {Item(text) : text \in ForeignTexts}

\* the component mounts: useState(loadStats)
InitStorage ==
  /\ InitGame
  /\ storage = Missing
  /\ gw = NoFrame
  /\ gq = NoBatch
  /\ menu = NoMenu
  /\ \E raw \in InitialItems :
       ls = [pc |-> "loaded", present |-> raw.present, raw |-> raw.text,
             stats |-> StoredStats(raw)]

\* saveStats(updated) in the setStats updater; updated becomes the state
SaveStats ==
  /\ ls.pc \in {"loaded", "saved"}
  /\ \E s \in SavedRecords :
       ls' = [pc |-> "saved", present |-> TRUE,
              raw |-> JSON_stringify(StatsObject(s)),
              stats |-> StatsObject(s)]
  /\ UNCHANGED <<gw, gq, menu, gameVars>>

\* the page is opened again: loadStats reads what is stored
LoadStats ==
  /\ ls.pc \in {"loaded", "saved"}
  /\ ls' = [ls EXCEPT !.pc = "loaded",
                      !.stats = StoredStats(IF ls.present THEN Item(ls.raw) ELSE NoItem)]
  /\ UNCHANGED <<gw, gq, menu, gameVars>>

NextStorage ==
  \/ SaveStats
  \/ LoadStats

SpecStorage == InitStorage /\ [][NextStorage]_vars

(***************************************************************************)
(* startGame on word lists: the draw of the words and generateChoices.     *)
(* VOCAB_DATA, imported from vocabData.js, is one of two sample lists      *)
(* here, the second with an en that two categories share.                  *)
(***************************************************************************)
Word(en, ko) == [en |-> en, ko |-> ko]

Category(key, words) == [key |-> key, words |-> words]

DistinctList ==
  << Category("animals", <<Word("cat", "k1"), Word("dog", "k2"),
                           Word("bird", "k3"), Word("fish", "k4")>>),
     Category("food", <<Word("rice", "k5")>>) >>

SharedList ==
  << Category("animals", <<Word("cat", "k1"), Word("bat", "k2")>>),
     Category("sports", <<Word("bat", "k3"), Word("ball", "k4")>>) >>

WordLists == {DistinctList, SharedList}

\* the round sizes offered, scaled to the sample lists
RoundSizes == {1, 2}

\* Object.values(VOCAB_DATA).flat()
RECURSIVE Flat(_)
Flat(data) == IF Len(data) = 0 THEN <<>> ELSE Head(data).words \o Flat(Tail(data))

allWords(data) == Flat(data)

Keys(data) == {data[k].key : k \in 1..Len(data)}

\* category === "random" ? allWords : VOCAB_DATA[category]
pool(m) ==
  IF m.category = "random" THEN allWords(m.data)
  ELSE m.data[CHOOSE k \in 1..Len(m.data) : m.data[k].key = m.category].words

\* mutant: the slice stops one element early
M_slice_OneShort(arr, n) == SubSeq(arr, 1, IF n - 1 < Len(arr) THEN n - 1 ELSE Len(arr))

\* arr.slice(0, n)
slice(arr, n) == SubSeq(arr, 1, IF n < Len(arr) THEN n ELSE Len(arr))

\* mutant: the other words are not filtered by en
M_others_All(correct, words) == words

\* allWords.filter((w) => w.en !== correct.en)
others(correct, words) == SelectSeq(words, LAMBDA w : w.en # correct.en)

\* the arrays generateChoices(correct, allWords) can return
generateChoices(correct, words) ==
  UNION {shuffle(<<correct>> \o slice(o, 3)) : o \in shuffle(others(correct, words))}

\* words.map((w) => ({ word: w, choices: generateChoices(w, allWords) }))
RECURSIVE MapQuestions(_, _)
MapQuestions(words, all) ==
  IF Len(words) = 0 THEN {<<>>}
  ELSE {<<[word |-> Head(words), choices |-> c]>> \o rest :
          c \in generateChoices(Head(words), all),
          rest \in MapQuestions(Tail(words), all)}

\* shuffle(pool).slice(0, roundSize)
DrawWords(m) == {slice(p, m.roundSize) : p \in shuffle(pool(m))}

\* startGame, as StartGame above, with the questions built from the menu's
\* selections
StartRound ==
  /\ mounted /\ UNCHANGED <<mounted, gw, gq, ls, menu>>
  /\ screen \in {"menu", "result"}
  /\ menu.category \in Keys(menu.data) \cup {"random"}
  /\ \E words \in DrawWords(menu) :
       questions' \in MapQuestions(words, allWords(menu.data))
  /\ current' = 0
  /\ score' = 0
  /\ streak' = 0
  /\ bestStreak' = 0
  /\ selected' = Null
  /\ results' = <<>>
  /\ timeLeft' = DIFFICULTY[difficulty].time
  /\ screen' = "play"
  /\ UNCHANGED <<difficulty, comboFlash, gameCount, showInterstitial, stats,
                 newAchievements, revealTimers, comboTimers, storage, asked>>
  /\ timer' = CountdownEffect(timer)

\* the menu screen with a category and a round size selected
InitVocab ==
  /\ InitGame
  /\ storage = Missing
  /\ gw = NoFrame
  /\ gq = NoBatch
  /\ ls = NoStore
  /\ \E data \in WordLists :
       \E category \in Keys(data) \cup {"random"}, roundSize \in RoundSizes :
         menu = [data |-> data, category |-> category, roundSize |-> roundSize]

NextVocab == StartRound

SpecVocab == InitVocab /\ [][NextVocab]_vars

\* both builders of a round
InitBuild == InitVocab \/ InitMath

NextBuild ==
  \/ StartRound
  \/ NextMath

SpecBuild == InitBuild /\ [][NextBuild]_vars

(***************************************************************************)
(* Vocabulary of the properties.                                           *)
(***************************************************************************)
InRound == screen \in {"play", "result"}

\* the step is startGame: only startGame shows the play screen
StartsRound == screen # "play" /\ screen' = "play"

\* the step accepts an answer: only handleAnswer appends to results
Accepted == screen = "play" /\ Len(results') = Len(results) + 1

Last(seq) == seq[Len(seq)]

SetMax(S) == CHOOSE x \in S : \A y \in S : y <= x

\* index of the last incorrect result among the first k, 0 if there is none
LastMiss(rs, k) == SetMax({0} \cup {j \in 1..k : ~rs[j].correct})

\* the streak after the k-th answer
RunAt(rs, k) == k - LastMiss(rs, k)

MaxRun(rs) == SetMax({0} \cup {RunAt(rs, k) : k \in 1..Len(rs)})

TimeLimit == DIFFICULTY[difficulty].time

BasePoints == DIFFICULTY[difficulty].points

(***************************************************************************)
(* C1: for each presented question at most one answer is accepted: on the  *)
(* play screen there is one result and one pending reveal timer for the    *)
(* current question once it is answered and none before; the accepting     *)
(* step appends exactly one result and adds its points once; and once the  *)
(* question is answered no step (a second click included) changes results, *)
(* score, streak or bestStreak or schedules another reveal timer.          *)
(***************************************************************************)
C1_State ==
  screen = "play" =>
    /\ Len(results) = current + (IF selected = Null THEN 0 ELSE 1)
    /\ Len(revealTimers) = (IF selected = Null THEN 0 ELSE 1)
    /\ (selected # Null => timer = NoTimer)

C1_Step ==
  /\ (screen = "play" /\ selected = Null /\ selected' # Null) =>
       /\ Len(results') = Len(results) + 1
       /\ score' = score + Last(results').points
       /\ Len(revealTimers') = 1
  /\ (screen = "play" /\ selected # Null) =>
       /\ results' = results
       /\ score' = score
       /\ streak' = streak
       /\ bestStreak' = bestStreak
       /\ Len(revealTimers') <= Len(revealTimers)

C1_OneAnswerPerQuestion == [](C1_State) /\ [][C1_Step]_vars

\* the second question timed out after the first was answered by a click; the
\* choice buttons are still on screen
C1_Witness ==
  /\ screen = "play"
  /\ selected = TimeoutMark
  /\ Len(results) = 2
  /\ results[1].chosen # Null
  /\ Len(revealTimers) = 1

(***************************************************************************)
(* C2: round completion runs exactly once per round: the step that shows   *)
(* the result screen adds 1 to totalGames, the final score to totalScore   *)
(* and the number of correct answers to totalCorrect; no other step        *)
(* changes a counter; and totalGames has grown by the number of rounds     *)
(* completed since the component was mounted.                              *)
(***************************************************************************)
C2_State ==
  \E p \in InitialPayloads : stats.totalGames = loadStats(p).totalGames + gameCount

C2_Step ==
  IF screen = "play" /\ screen' = "result"
    THEN /\ stats'.totalGames = stats.totalGames + 1
         /\ stats'.totalScore = stats.totalScore + score
         /\ stats'.totalCorrect = stats.totalCorrect + NumCorrect(results)
         /\ gameCount' = gameCount + 1
    ELSE /\ \A f \in CounterFields : stats'[f] = stats[f]
         /\ gameCount' = gameCount

C2_CompletionOnce == [](C2_State) /\ [][C2_Step]_vars

C2_Witness ==
  /\ screen = "result"
  /\ gameCount = 2
  /\ score > 0
  /\ stats.totalGames = 11

(***************************************************************************)
(* C3: the tick that finds timeLeft <= 1 on an unanswered question answers *)
(* it as handleAnswer(null): a result with no chosen word, not correct and *)
(* 0 points is appended for the current question, the score is unchanged,  *)
(* the streak becomes 0, the countdown is stopped and the reveal pause is  *)
(* entered; timeLeft is 0 on the play screen only after such a timeout.    *)
(***************************************************************************)
C3_State ==
  (screen = "play" /\ timeLeft = 0) =>
    /\ selected = TimeoutMark
    /\ Last(results).chosen = Null

C3_Step ==
  (screen = "play" /\ selected = Null /\ timeLeft <= 1 /\ timeLeft' = 0) =>
    /\ results' =
         Append(results, [Last(results') EXCEPT
                            !.word = questions[current + 1].word,
                            !.chosen = Null, !.correct = FALSE, !.points = 0])
    /\ score' = score
    /\ streak' = 0
    /\ timer' = NoTimer
    /\ selected' = TimeoutMark
    /\ Len(revealTimers') = Len(revealTimers) + 1
    /\ screen' = "play" /\ current' = current

C3_TimeoutAnswers == [](C3_State) /\ [][C3_Step]_vars

\* a timeout that reset a streak
C3_Witness ==
  /\ screen = "play"
  /\ timeLeft = 0
  /\ selected = TimeoutMark
  /\ Len(results) = 2
  /\ results[1].correct
  /\ streak = 0

(***************************************************************************)
(* C4: questions are presented in order, the index advancing by exactly 1: *)
(* the reveal pause of question i ends in presenting i+1 when i is not the *)
(* last index and in the result screen otherwise; the index changes only   *)
(* so or by startGame (to 0); the result screen is reached only from the   *)
(* answered last question, with a result for every question.               *)
(***************************************************************************)
C4_State ==
  /\ screen = "play" => current < Len(questions)
  /\ screen = "result" =>
       current + 1 = Len(questions) /\ Len(results) = Len(questions)

C4_Step ==
  /\ StartsRound => current' = 0 /\ selected' = Null
  /\ (current' # current /\ ~StartsRound) =>
       /\ screen = "play" /\ screen' = "play"
       /\ selected # Null /\ selected' = Null
       /\ current' = current + 1
  /\ (screen = "play" /\ selected # Null /\ selected' = Null) =>
       /\ current + 1 < Len(questions)
       /\ current' = current + 1
       /\ screen' = "play"
  /\ (screen = "play" /\ screen' # "play") =>
       /\ screen' = "result"
       /\ selected # Null
       /\ current + 1 = Len(questions)
  /\ (screen = "play" /\ selected # Null /\ current + 1 = Len(questions)) =>
       selected' = selected

C4_InOrder == [](C4_State) /\ [][C4_Step]_vars

C4_Witness ==
  /\ screen = "result"
  /\ Len(questions) >= 3
  /\ current = Len(questions) - 1

(***************************************************************************)
(* C5: results[k] is the result of questions[k] for every k up to the      *)
(* length of results; results only grows by appending, until startGame     *)
(* empties it; on the result screen it is as long as questions.            *)
(***************************************************************************)
C5_State ==
  /\ Len(results) <= Len(questions)
  /\ \A k \in 1..Len(results) : results[k].word = questions[k].word
  /\ screen = "result" => Len(results) = Len(questions)

C5_Step ==
  results' # results =>
    \/ StartsRound /\ results' = <<>>
    \/ /\ Len(results') = Len(results) + 1
       /\ SubSeq(results', 1, Len(results)) = results

C5_ResultsInOrder == [](C5_State) /\ [][C5_Step]_vars

C5_Witness ==
  /\ screen = "result"
  /\ Len(results) >= 3
  /\ results[3].word = questions[3].word

(***************************************************************************)
(* C6: a correct answer given with tl seconds remaining after a streak of  *)
(* s is awarded B + speedBonus + streakBonus, speedBonus = 2 * tl if       *)
(* tl > 0.6 * T (strictly) and 0 otherwise, streakBonus = 5 * (s + 1) if   *)
(* s + 1 >= 3 and 0 otherwise; with T = 10, B = 20 and 8 s remaining the   *)
(* third consecutive correct answer is awarded 51.                         *)
(***************************************************************************)
C6_Expected(T, B, tl, s) ==
  B + (IF 5 * tl > 3 * T THEN 2 * tl ELSE 0)
    + (IF s + 1 >= 3 THEN 5 * (s + 1) ELSE 0)

C6_Points ==
  InRound =>
    /\ \A k \in 1..Len(results) :
         results[k].correct =>
           results[k].points =
             C6_Expected(TimeLimit, BasePoints, TimeLimit - results[k].timeUsed,
                         RunAt(results, k) - 1)
    /\ ( /\ difficulty = "medium"
         /\ Len(results) >= 3
         /\ \A k \in 1..3 : results[k].correct
         /\ results[3].timeUsed = 2 ) => results[3].points = 51

\* the example of the claim
C6_Witness ==
  /\ InRound
  /\ difficulty = "medium"
  /\ Len(results) = 3
  /\ \A k \in 1..3 : results[k].correct /\ results[k].timeUsed = 2
  /\ results[3].points = 51
  /\ results[1].points = 36

(***************************************************************************)
(* C7: every recorded answer has 0 points when it is not correct and at    *)
(* least the base points of the active difficulty (10, 20 or 35) when it   *)
(* is correct.                                                             *)
(***************************************************************************)
C7_PointBounds ==
  InRound =>
    /\ BasePoints \in {10, 20, 35}
    /\ \A k \in 1..Len(results) :
         /\ ~results[k].correct => results[k].points = 0
         /\ results[k].correct => results[k].points >= BasePoints

\* a wrong choice, a timeout and a correct answer in one round
C7_Witness ==
  /\ InRound
  /\ Len(results) = 3
  /\ ~results[1].correct /\ results[1].chosen # Null
  /\ ~results[2].correct /\ results[2].chosen = Null
  /\ results[3].correct

(***************************************************************************)
(* C8: the streak changes only when an answer is accepted (or startGame    *)
(* resets it): an accepted answer makes it 0 when incorrect or timed out   *)
(* and the previous streak + 1 when correct.                               *)
(***************************************************************************)
C8_Step ==
  /\ streak' # streak => (StartsRound /\ streak' = 0) \/ Accepted
  /\ Accepted =>
       streak' = (IF Last(results').correct THEN streak + 1 ELSE 0)

C8_Streak == [][C8_Step]_vars

\* correct, timeout, correct
C8_Witness ==
  /\ InRound
  /\ Len(results) = 3
  /\ results[1].correct
  /\ results[2].chosen = Null
  /\ results[3].correct
  /\ streak = 1

(***************************************************************************)
(* C9: within a round bestStreak never decreases, and it is the largest    *)
(* value the streak has taken since startGame.                             *)
(***************************************************************************)
C9_State == InRound => bestStreak = MaxRun(results)

C9_Step == bestStreak' >= bestStreak \/ StartsRound

C9_BestStreak == [](C9_State) /\ [][C9_Step]_vars

\* the streak fell back after reaching 2
C9_Witness ==
  /\ InRound
  /\ bestStreak = 2
  /\ streak = 0

(***************************************************************************)
(* C10: no step decreases totalCorrect, totalGames, bestStreakEver,        *)
(* totalScore or perfectRounds.                                            *)
(***************************************************************************)
C10_StatsMonotone == [][\A f \in CounterFields : stats'[f] >= stats[f]]_vars

\* a second round completed whose best streak is below the recorded one
C10_Witness ==
  /\ screen = "result"
  /\ gameCount = 2
  /\ bestStreak < stats.bestStreakEver
  /\ stats.totalCorrect > 99

(***************************************************************************)
(* Vocabulary of the achievement properties.                               *)
(***************************************************************************)
IdSet(ids) == {ids[k] : k \in 1..Len(ids)}

\* the step is the round completion
Completes == screen = "play" /\ screen' = "result"

\* the achievements whose check holds on s
Met(s) == {k \in 1..Len(ACHIEVEMENTS) : s[ACHIEVEMENTS[k].field] >= ACHIEVEMENTS[k].min}

RECURSIVE SumPoints(_)
SumPoints(rs) ==
  IF rs = <<>> THEN 0 ELSE rs[1].points + SumPoints(Tail(rs))

(***************************************************************************)
(* C11: an achievement is never revoked: every id of stats.unlockedIds is  *)
(* still in it after every step, a round completion included.             *)
(***************************************************************************)
C11_NeverRevoked ==
  [][IdSet(stats.unlockedIds) \subseteq IdSet(stats'.unlockedIds)]_vars

\* s5 kept through a round that unlocked others and a round that unlocked none
C11_Witness ==
  /\ screen = "result"
  /\ gameCount = 2
  /\ newAchievements = <<"g10">>
  /\ stats.unlockedIds = <<"s5", "g10">>

(***************************************************************************)
(* C12: a round completion makes the unlocked set the prior set plus       *)
(* exactly the achievements not unlocked before whose check holds on the   *)
(* updated stats; so after it every achievement whose threshold the        *)
(* updated stats meet is unlocked, also when several are crossed at once.  *)
(***************************************************************************)
C12_Step ==
  Completes =>
    /\ IdSet(stats'.unlockedIds) =
         IdSet(stats.unlockedIds) \cup
           {ACHIEVEMENTS[k].id :
              k \in {j \in Met(stats') :
                       ACHIEVEMENTS[j].id \notin IdSet(stats.unlockedIds)}}
    /\ \A k \in Met(stats') : ACHIEVEMENTS[k].id \in IdSet(stats'.unlockedIds)

C12_UnlockedExactly == [][C12_Step]_vars

\* four thresholds crossed by one perfect round
C12_Witness ==
  /\ screen = "result"
  /\ gameCount = 1
  /\ stats.unlockedIds = <<"s5", "c100", "g10", "p1", "sc5k">>

(***************************************************************************)
(* C13: stats.unlockedIds never holds the same id twice (the stored        *)
(* records the sessions start from hold none twice).                       *)
(***************************************************************************)
C13_NoDuplicates ==
  \A i, j \in 1..Len(stats.unlockedIds) :
    i # j => stats.unlockedIds[i] # stats.unlockedIds[j]

\* two completions, each with the check of s5 holding again
C13_Witness ==
  /\ gameCount = 2
  /\ stats.bestStreakEver >= 5
  /\ Len(stats.unlockedIds) >= 2
  /\ stats.unlockedIds[1] = "s5"

(***************************************************************************)
(* C14: the round completion adds to the prior stats exactly the number of *)
(* correct results, 1 game, the points of all results of the round, takes  *)
(* the maximum of the prior bestStreakEver and the longest streak of the   *)
(* round, and adds 1 to perfectRounds if and only if every question was    *)
(* answered correctly; the last answer, click or timeout, is included.     *)
(***************************************************************************)
C14_Step ==
  Completes =>
    /\ stats'.totalCorrect =
         stats.totalCorrect + Cardinality({k \in 1..Len(questions) : results[k].correct})
    /\ stats'.totalGames = stats.totalGames + 1
    /\ stats'.bestStreakEver = Max(stats.bestStreakEver, MaxRun(results))
    /\ stats'.totalScore = stats.totalScore + SumPoints(results)
    /\ stats'.perfectRounds =
         stats.perfectRounds +
           (IF \A k \in 1..Len(questions) : results[k].correct THEN 1 ELSE 0)

C14_MergeExact == [][C14_Step]_vars

\* a perfect round ended by a click, then a round ended by a timeout
C14_Witness ==
  /\ screen = "result"
  /\ gameCount = 2
  /\ stats.perfectRounds = 1
  /\ Last(results).chosen = Null
  /\ stats.totalScore \notin {0, 4990}

(***************************************************************************)
(* C15: stats and the stored record change only in the step that completes *)
(* the round, which runs only when every question of the round has its     *)
(* result; while results is shorter than questions they keep their values, *)
(* also when the round is abandoned midway.                                *)
(***************************************************************************)
C15_Step ==
  (stats' # stats \/ storage' # storage) =>
    /\ screen = "play"
    /\ selected # Null
    /\ current + 1 = Len(questions)
    /\ Len(results) = Len(questions)

C15_NoPartialMerge == [][C15_Step]_vars

\* abandoned during the reveal pause of a question that is not the last; the
\* pending timeout has run and nothing was saved
C15_Witness ==
  /\ ~mounted
  /\ Len(results) >= 1
  /\ Len(results) < Len(questions)
  /\ revealTimers = <<>>
  /\ selected # Null
  /\ storage = Missing

(***************************************************************************)
(* C16: when a round is abandoned, every pending timer of the round (the   *)
(* countdown interval and the reveal timeout) is cleared, and no callback  *)
(* running afterwards changes score, streak, results or stats or calls     *)
(* saveStats.                                                              *)
(***************************************************************************)
C16_TimersCleared ==
  /\ [](~mounted => timer = NoTimer /\ revealTimers = <<>>)
  /\ [][~mounted => UNCHANGED <<score, streak, results, stats, storage>>]_vars

(***************************************************************************)
(* C17: when a question becomes the presented one (index 0 at startGame,   *)
(* index i+1 after a reveal pause) no answer is selected, timeLeft is the  *)
(* time limit of the active difficulty and the countdown is started; while *)
(* the question is unanswered timeLeft changes only by -1.                 *)
(***************************************************************************)
C17_State ==
  (screen = "play" /\ selected = Null) =>
    /\ timeLeft \in 1..TimeLimit
    /\ TimeLimit \in {15, 10, 6}

C17_Step ==
  /\ (StartsRound \/ current' # current) =>
       /\ selected' = Null
       /\ timeLeft' = DIFFICULTY[difficulty'].time
       /\ timer' # NoTimer
  /\ (screen = "play" /\ selected = Null /\ timeLeft' # timeLeft) =>
       timeLeft' = timeLeft - 1

C17_Countdown == [](C17_State) /\ [][C17_Step]_vars

\* three ticks into the second question of an easy round
C17_Witness ==
  /\ screen = "play"
  /\ selected = Null
  /\ current = 1
  /\ difficulty = "easy"
  /\ timeLeft = 12

(***************************************************************************)
(* C18: the countdown runs exactly while the screen is play and no answer  *)
(* is selected; the step that accepts an answer stops it; and outside that *)
(* (reveal pause, menu, result) timeLeft stays as it is and no result is   *)
(* appended.                                                               *)
(***************************************************************************)
Counting == screen = "play" /\ selected = Null

C18_State == (timer # NoTimer) <=> Counting

C18_Step ==
  /\ (Counting /\ selected' # Null) => timer' = NoTimer
  /\ ~Counting =>
       /\ results' = results \/ StartsRound
       /\ timeLeft' = timeLeft \/ (screen' = "play" /\ selected' = Null)

C18_CountdownOnlyWhilePresenting == [](C18_State) /\ [][C18_Step]_vars

\* the reveal pause after a click with time left
C18_Witness ==
  /\ screen = "play"
  /\ selected \notin {Null, TimeoutMark}
  /\ timeLeft >= 6
  /\ timer = NoTimer

C20_WrongAnswers ==
  (gw.pc = "done" /\ gw.fn = "int") =>
    /\ Len(gw.wrongs) = gw.count
    /\ \A k \in 1..Len(gw.wrongs) :
         gw.wrongs[k] \in Int /\ gw.wrongs[k] # gw.correct
    /\ \A i, j \in 1..Len(gw.wrongs) : i # j => gw.wrongs[i] # gw.wrongs[j]

\* a negative correct, with a wrong answer on either side of zero
C20_Witness ==
  /\ gw.pc = "done"
  /\ gw.correct = -2
  /\ gw.count = 2
  /\ gw.wrongs = <<3, -12>>

\* C21: generateWrongAnswers, generateFractionWrongs and
\* generateStringWrongs terminate for every input and every outcome of the
\* random choices: the attempt loop makes at most 50 passes and every call
\* reaches its return, with count values collected
C21_Terminates ==
  /\ [](gw.attempts <= MaxAttempts)
  /\ <>(gw.pc = "done" /\ Len(gw.wrongs) = gw.count)

\* fifty attempts on the fraction 0 are over and the fallback loop is at work
C21_Witness ==
  /\ gw.fn = "frac" /\ gw.pc = "fallback"
  /\ gw.attempts = MaxAttempts
  /\ gw.correct = 0
  /\ gw.wrongs = <<250>>
  /\ gw.fallback = 500

\* C22: every value the fallback loop of generateWrongAnswers adds is
\* greater than correct
C22_FallbackAbove ==
  [][(gw.pc = "fallback" /\ gw.fn = "int") =>
       \A k \in (Len(gw.wrongs) + 1)..Len(gw'.wrongs) :
         gw'.wrongs[k] > gw.correct]_vars

(***************************************************************************)
(* Property vocabulary of the storage claims.                              *)
(***************************************************************************)
HasField(obj, key) == \E i \in 1..Len(obj.v) : obj.v[i].key = key

Field(obj, key) == obj.v[CHOOSE i \in 1..Len(obj.v) : obj.v[i].key = key].value

StatsFields == CounterFields \cup {"unlockedIds"}

\* equal field by field, the six fields of a Stats record
SameStats(a, b) ==
  \A key \in StatsFields :
    /\ HasField(a, key) /\ HasField(b, key)
    /\ Field(a, key) = Field(b, key)

\* the stored item is no Stats record: nothing stored, text that does not
\* parse, a value that is no object, or a field of the wrong type
IsCorrupt(raw) ==
  \/ ~raw.present
  \/ LET r == JSON_parse(raw.text) IN
       \/ ~r.ok
       \/ r.value.t # "object"
       \/ \E key \in CounterFields :
            HasField(r.value, key) /\ Field(r.value, key).t # "number"
       \/ HasField(r.value, "unlockedIds")
            /\ Field(r.value, "unlockedIds").t # "array"

\* C23: a record written by saveStats and then read by loadStats is the
\* record written, field by field
C23_RoundTrip ==
  [][(ls.pc = "saved" /\ ls'.pc = "loaded") => SameStats(ls'.stats, ls.stats)]_vars

\* a record with multi-digit counters and two unlocked ids was saved and
\* read back
C23_Witness ==
  /\ ls.pc = "loaded"
  /\ ls.present
  /\ ls.stats = StatsObject([totalCorrect |-> 10, totalGames |-> 9,
                             bestStreakEver |-> 10, totalScore |-> 4990,
                             perfectRounds |-> 0,
                             unlockedIds |-> <<"s5", "g10">>])

\* C24: loadStats returns the default record whenever the stored item is
\* missing or corrupt
C24_DefaultsWhenCorrupt ==
  (ls.pc = "loaded" /\ IsCorrupt(IF ls.present THEN Item(ls.raw) ELSE NoItem))
    => SameStats(ls.stats, StatsObject(DEFAULT_STATS))

\* C25: the list built by generateMathQuestions contains no prompt twice
C25_NoPromptTwice ==
  \A i, j \in 1..Len(gq.questions) :
    i # j => gq.questions[i] # gq.questions[j]

(***************************************************************************)
(* Property vocabulary of the claims on building a round.                  *)
(***************************************************************************)
Least(a, b) == IF a <= b THEN a ELSE b

\* a vocabulary round has been built from the menu's selections
RoundBuilt == menu.category # "none" /\ screen = "play"

\* positions of the word list whose en is not the one given
OtherEn(words, en) == {i \in 1..Len(words) : words[i].en # en}

\* the en values are pairwise distinct and there are at least 4 words
DistinctEn(words) ==
  /\ Len(words) >= 4
  /\ \A i, j \in 1..Len(words) : i # j => words[i].en # words[j].en

C28_Choices ==
  RoundBuilt =>
    \A q \in 1..Len(questions) :
      LET words == allWords(menu.data)
          word == questions[q].word
          choices == questions[q].choices
      IN  /\ Cardinality({k \in 1..Len(choices) : choices[k] = word}) = 1
          /\ Cardinality({k \in 1..Len(choices) : choices[k].en = word.en}) = 1
          /\ \A k \in 1..Len(choices) :
               \E i \in 1..Len(words) : words[i] = choices[k]
          /\ Len(choices) = 1 + Least(3, Cardinality(OtherEn(words, word.en)))
          /\ DistinctEn(words) =>
               /\ Len(choices) = 4
               /\ \A j, k \in 1..Len(choices) :
                    j # k => choices[j].en # choices[k].en

\* a question of the category animals has a word of food among its choices
C28_Witness ==
  /\ RoundBuilt
  /\ menu.data = DistinctList
  /\ menu.category = "animals"
  /\ questions[1].word.en = "cat"
  /\ \E k \in 1..Len(questions[1].choices) : questions[1].choices[k].en = "rice"

(***************************************************************************)
(* C27: an accepted answer raises the combo event (comboFlash set and its  *)
(* 800 ms timer started) exactly when it is correct and the new streak is  *)
(* at least 3; no other step raises it; the answer that raises it scores   *)
(* and is recorded as any answer, and the timer that clears the flash      *)
(* changes neither score, streak nor results.                              *)
(***************************************************************************)
ComboRaised == comboTimers' = comboTimers + 1 /\ comboFlash'

C27_Step ==
  /\ Accepted =>
       /\ ComboRaised <=> (Last(results').correct /\ streak' >= 3)
       /\ ComboRaised \/ UNCHANGED <<comboFlash, comboTimers>>
       /\ Last(results').chosen = Null => ~ComboRaised
       /\ results' = Append(results, Last(results'))
       /\ score' = score + Last(results').points
       /\ streak' = IF Last(results').correct THEN streak + 1 ELSE 0
  /\ ~Accepted =>
       /\ comboTimers' <= comboTimers
       /\ comboFlash' => comboFlash
  /\ comboTimers' < comboTimers =>
       /\ ~comboFlash'
       /\ UNCHANGED <<score, streak, results>>

C27_Combo == [][C27_Step]_vars

\* the third correct answer in a row has raised the combo
C27_Witness ==
  /\ screen = "play"
  /\ comboFlash
  /\ comboTimers = 1
  /\ streak = 3
  /\ Len(results) = 3

(***************************************************************************)
(* C29: the result of an accepted answer records timeUsed = time limit     *)
(* minus the time remaining when it was accepted, the full time limit for  *)
(* a timeout.                                                              *)
(***************************************************************************)
C29_TimeUsed ==
  [][Accepted =>
       Last(results').timeUsed =
         IF Last(results').chosen = Null THEN TimeLimit
         ELSE TimeLimit - timeLeft]_vars

(***************************************************************************)
(* C30: the handleAnswer run by the countdown is the one captured when the *)
(* countdown of the current question started; for a timeout the score,     *)
(* streak, best streak, the appended result apart from timeUsed and, on    *)
(* the last question, the stats merge are those of an invocation on the    *)
(* state at the moment of the timeout.                                     *)
(***************************************************************************)
WithoutTime(r) == [r EXCEPT !.timeUsed = 0]

C30_Step ==
  (Accepted /\ Last(results').chosen = Null) =>
    /\ timer # NoTimer
    /\ timer[1].current = current
    /\ timer[1].timeLeft = TimeLimit
    /\ LET live == Answer(CurEnv, Null) IN
         /\ score' = score + live.pts
         /\ streak' = live.newStreak
         /\ bestStreak' = NewBest(bestStreak, live.newStreak)
         /\ WithoutTime(Last(results')) = WithoutTime(ResultOf(live))
         /\ IsLast(Last(revealTimers').env) = IsLast(CurEnv)
         /\ IsLast(CurEnv) =>
              UpdatedStats(stats, Last(revealTimers')) = UpdatedStats(stats, live)

C30_StaleTimeout == [][C30_Step]_vars

\* a round whose last question timed out has been merged into the stats
C30_Witness ==
  /\ screen = "result"
  /\ Len(results) = 2
  /\ results[1].correct
  /\ results[2].chosen = Null
  /\ stats.totalGames = gameCount
  /\ gameCount = 1

(***************************************************************************)
(* C31: the list of new achievements on the result screen holds exactly    *)
(* the achievements the round unlocked: the step that shows the result     *)
(* screen leaves in newAchievements the ids that it added to               *)
(* stats.unlockedIds, none when it added none, also when the round was     *)
(* started by the retry button of a result screen that showed some.        *)
(***************************************************************************)
C31_Step ==
  Completes =>
    IdSet(newAchievements') =
      IdSet(stats'.unlockedIds) \ IdSet(stats.unlockedIds)

C31_ShownExactly == [][C31_Step]_vars

(***************************************************************************)
(* C32: at every moment of a round the score is the sum of the points of   *)
(* the results recorded so far in that round, and no step of a round       *)
(* lowers the score (startGame, which begins another round, sets it to 0). *)
(***************************************************************************)
C32_State == InRound => score = SumPoints(results)

C32_Step == score' >= score \/ StartsRound

C32_ScoreIsSum == [](C32_State) /\ [][C32_Step]_vars

\* a bonus answer, then a miss, on the way to the third question
C32_Witness ==
  /\ screen = "play"
  /\ Len(results) = 2
  /\ results[1].points > BasePoints
  /\ results[2].points = 0
  /\ score = results[1].points

(***************************************************************************)
(* C33: every started round reaches the result screen when the countdown   *)
(* ticks and the reveal timeouts fire, whether or not the user answers:    *)
(* while a question waits for its answer timeLeft is between 1 and the     *)
(* time limit and every tick lowers it by one or, from 1, answers the      *)
(* question as a timeout, so a question is answered after at most          *)
(* time-limit ticks; and the play screen leads to the result screen.       *)
(***************************************************************************)
C33_State == Counting => timeLeft \in 1..TimeLimit

C33_Step ==
  (Counting /\ timeLeft' # timeLeft) =>
    \/ timeLeft' = timeLeft - 1 /\ timeLeft' >= 1 /\ selected' = Null
    \/ timeLeft = 1 /\ timeLeft' = 0 /\ selected' = TimeoutMark

C33_RoundEnds ==
  /\ [](C33_State)
  /\ [][C33_Step]_vars
  /\ (screen = "play") ~> (screen = "result")

\* a round of three questions that ended with no click at all
C33_Witness ==
  /\ screen = "result"
  /\ Len(results) = 3
  /\ \A k \in 1..3 : results[k].chosen = Null

(***************************************************************************)
(* C34: startGame, from the menu or from the result screen, resets the     *)
(* state of the round (current 0, score 0, streak 0, bestStreak 0, no      *)
(* results, no selection, timeLeft the time limit of the difficulty)       *)
(* whatever the previous round left, and leaves the cumulative stats, the  *)
(* unlocked ids among them, and the stored record as they were.            *)
(***************************************************************************)
C34_Step ==
  StartsRound =>
    /\ current' = 0
    /\ score' = 0
    /\ streak' = 0
    /\ bestStreak' = 0
    /\ results' = <<>>
    /\ selected' = Null
    /\ timeLeft' = DIFFICULTY[difficulty'].time
    /\ stats' = stats
    /\ storage' = storage

C34_StartGameResets == [][C34_Step]_vars

\* a round started with the retry button (the list of the result screen is
\* still there), after a first round that ended with points and a streak
C34_Witness ==
  /\ screen = "play"
  /\ gameCount = 1
  /\ newAchievements # <<>>
  /\ stats.totalGames = 1
  /\ stats.bestStreakEver = 2
  /\ stats.totalScore > 0
  /\ current = 0
  /\ score = 0
  /\ streak = 0
  /\ results = <<>>
  /\ selected = Null
  /\ timeLeft = TimeLimit

(***************************************************************************)
(* C35: timeLeft stays between 0 and the time limit of the active          *)
(* difficulty in every reachable state; an answer of the user is accepted  *)
(* only with timeLeft >= 1; and timeLeft is 0 only after the current       *)
(* question timed out, until the next question is presented (after the     *)
(* last question of a round: until the next round starts).                 *)
(***************************************************************************)
\* a question waiting for its answer has at least one second left, and the
\* step that accepts a choice of the user is taken with timeLeft >= 1
C35_UserAnswer ==
  (Accepted /\ selected' # TimeoutMark) => timeLeft >= 1 /\ timeLeft' = timeLeft

\* timeLeft is 0 only when the question last answered timed out
C35_ZeroAfterTimeout ==
  timeLeft = 0 =>
    /\ selected = TimeoutMark
    /\ results # <<>>
    /\ Last(results).chosen = Null

C35_State ==
  /\ timeLeft \in 0..TimeLimit
  /\ Counting => timeLeft >= 1
  /\ C35_ZeroAfterTimeout

C35_TimeLeftInRange == [](C35_State) /\ [][C35_UserAnswer]_vars

\* as C35, with the range of timeLeft as the code keeps it: within the limit of
\* the active difficulty on the play and result screens; on the menu timeLeft
\* is the value the last round left (10 before the first round), within the
\* longest limit but possibly above the limit of a difficulty chosen there
C35_AmendedState ==
  /\ screen # "menu" => timeLeft \in 0..TimeLimit
  /\ \E key \in DifficultyKeys : timeLeft \in 0..DIFFICULTY[key].time
  /\ Counting => timeLeft >= 1
  /\ C35_ZeroAfterTimeout

C35_TimeLeftInRangeInRound == [](C35_AmendedState) /\ [][C35_UserAnswer]_vars

\* back on the menu after a round, with a shorter difficulty chosen there
C35_Witness ==
  /\ screen = "menu"
  /\ gameCount = 1
  /\ results # <<>>
  /\ Last(results).chosen # Null
  /\ timeLeft > TimeLimit

(***************************************************************************)
(* C36: a storage that throws on the write does not stop the round         *)
(* completion: the reveal timeout of the last question still shows the     *)
(* result screen and still leaves the merged stats in memory (one more     *)
(* game, the points and the correct answers of the round added); the       *)
(* stored record then is the one stored before.                            *)
(***************************************************************************)
\* the step is the reveal timeout of the round's last question
LastReveal ==
  /\ screen = "play"
  /\ current + 1 = Len(questions)
  /\ Len(revealTimers) = 1
  /\ revealTimers' = <<>>

C36_Step ==
  LastReveal =>
    /\ screen' = "result"
    /\ stats'.totalGames = stats.totalGames + 1
    /\ stats'.totalScore = stats.totalScore + score
    /\ stats'.totalCorrect = stats.totalCorrect + NumCorrect(results)
    /\ gameCount' = gameCount + 1
    /\ storage = Refusing => storage' = storage

C36_SaveFailureSwallowed == [][C36_Step]_vars

\* a round completed with points while the storage refused the write
C36_Witness ==
  /\ screen = "result"
  /\ storage = Refusing
  /\ stats.totalGames = 1
  /\ stats.totalScore > 0
  /\ stats.totalScore = score

(***************************************************************************)
(* C37: shuffle(arr) returns a new array that is a permutation of arr      *)
(* (the same length, every element as often as in arr) whatever the        *)
(* random draws, and arr itself is as it was: the local array is a         *)
(* permutation of arr after every pass, the passes write the local array   *)
(* only, and what is returned is one of the arrays of shuffle(arr).        *)
(***************************************************************************)
Count(seq, x) == Cardinality({k \in 1..Len(seq) : seq[k] = x})

IsPermutation(a, b) ==
  /\ Len(a) = Len(b)
  /\ \A x \in Elements : Count(a, x) = Count(b, x)

C37_State ==
  /\ IsPermutation(gw.a, gw.arr)
  /\ gw.pc = "done" => gw.a \in shuffle(gw.arr)

C37_Step == gw'.arr = gw.arr

C37_Permutation == [](C37_State) /\ [][C37_Step]_vars

\* an array with an element twice, returned in another order
C37_Witness ==
  /\ gw.pc = "done"
  /\ gw.arr = <<"x", "x", "y">>
  /\ gw.a = <<"y", "x", "x">>

(***************************************************************************)
(* C38: for correct a multiple of 0.01, generateFractionWrongs(correct,    *)
(* count) returns exactly count values, pairwise distinct, none equal to   *)
(* correct, each correct plus a non-zero multiple of 0.25 rounded to two   *)
(* decimals: a pass of the attempt loop adds correct plus an offset of     *)
(* -0.75 .. +1.0, a pass of the fallback loop adds correct plus the        *)
(* fallback offset, which is 0.25, 0.5, ... from pass to pass.             *)
(***************************************************************************)
\* the value the step appends to wrongs
Added == gw'.wrongs[Len(gw'.wrongs)]

\* the step appends one value to wrongs
Adds ==
  /\ Len(gw'.wrongs) = Len(gw.wrongs) + 1
  /\ gw'.wrongs = Append(gw.wrongs, Added)

C38_State ==
  /\ \A i, j \in 1..Len(gw.wrongs) : i # j => gw.wrongs[i] # gw.wrongs[j]
  /\ \A i \in 1..Len(gw.wrongs) : gw.wrongs[i] # gw.correct
  /\ gw.pc = "done" => Len(gw.wrongs) = gw.count
  /\ gw.pc = "fallback" => gw.fallback > 0 /\ gw.fallback % 250 = 0

C38_Step ==
  /\ gw'.wrongs = gw.wrongs \/ Adds
  /\ (gw.pc = "loop" /\ Adds) =>
       \E k \in (-3)..4 :
         /\ k # 0
         /\ Added = gw.correct + 250 * k
         /\ Added = RoundCents(gw.correct + 250 * k)
  /\ (gw.pc = "fallback" /\ Adds) =>
       /\ Added = gw.correct + gw.fallback
       /\ Added = RoundCents(gw.correct + gw.fallback)
  /\ (gw.pc = "fallback" /\ gw'.pc = "fallback") =>
       gw'.fallback = gw.fallback + 250

C38_FractionWrongs == [](C38_State) /\ [][C38_Step]_vars

\* 0.07: the attempts found 0.32 alone, the first pass of the fallback loop
\* met it again and the second is about to add 0.57
C38_Witness ==
  /\ gw.pc = "fallback"
  /\ gw.correct = 70
  /\ gw.count = 2
  /\ gw.wrongs = <<320>>
  /\ gw.fallback = 500

(***************************************************************************)
(* C39: for a non-empty string correct, generateStringWrongs(correct,      *)
(* count) returns exactly count strings, pairwise distinct, none equal to  *)
(* correct; a string added by the attempt loop has the length of correct   *)
(* and differs from it in exactly one position; the k-th pass of the       *)
(* fallback loop adds correct followed by the decimal digits of k.         *)
(***************************************************************************)
\* the positions in which two strings of one length differ
Differ(a, b) == {k \in 1..Len(a) : a[k] # b[k]}

C39_State ==
  /\ Len(gw.correct) > 0
  /\ \A i, j \in 1..Len(gw.wrongs) : i # j => gw.wrongs[i] # gw.wrongs[j]
  /\ \A i \in 1..Len(gw.wrongs) : gw.wrongs[i] # gw.correct
  /\ gw.pc = "done" => Len(gw.wrongs) = gw.count

C39_Step ==
  /\ gw'.wrongs = gw.wrongs \/ Adds
  /\ (gw.pc = "loop" /\ Adds) =>
       /\ Len(Added) = Len(gw.correct)
       /\ Cardinality(Differ(Added, gw.correct)) = 1
  /\ gw.pc = "fallback" =>
       /\ Adds
       /\ gw.fallback \in 0..8
       /\ Added = Append(gw.correct, DigitChars[gw.fallback + 2])
       /\ gw'.pc = "fallback" => gw'.fallback = gw.fallback + 1

C39_StringWrongs == [](C39_State) /\ [][C39_Step]_vars

\* "1" has one neighbour, "0"; the second wrong answer is "11"
C39_Witness ==
  /\ gw.pc = "done"
  /\ gw.correct = <<"1">>
  /\ gw.wrongs = << <<"0">>, <<"1", "1">> >>

====
